---- MODULE Spec2Model ----
(***************************************************************************)
(* State machines of the library, each with its own specification:         *)
(*   Spec            the streaming client OrderBookWebSocket                *)
(*                   (core/websocket.ts): connection state machine,         *)
(*                   subscription map, reconnection, message dispatch;      *)
(*   DispatcherSpec  Exchange.checkRateLimit / withRetry (core/exchange.ts);*)
(*   StrategySpec    the strategy engine Strategy (core/strategy.ts);       *)
(*   BackoffSpec     the delay OrderBookWebSocket.reconnect sleeps;         *)
(*   OrderbookSpec   OrderbookManager and OrderbookUtils (types/market.ts); *)
(*   FeedSpec        the producers of orderbook snapshots: LimitlessWebSocket,*)
(*                   PolymarketWebSocket.parseOrderbookMessage and          *)
(*                   OrderbookUtils.fromRestResponse.                       *)
(* A specification leaves the variables of the others at their initial      *)
(* values.  The notes below are about the streaming client.                 *)
(*                                                                         *)
(* One action per handler.  An async function is cut at the awaits of the  *)
(* abstract hooks (authenticate, subscribeOrderbook) and of sleep(); the   *)
(* code between two such awaits is one atomic step.  The continuation of   *)
(* `await this.connect()` runs in the step that settles the promise.       *)
(* A subscribe / unsubscribe request is the call of the abstract hook      *)
(* subscribeOrderbook / unsubscribeOrderbook.  lastMessageTime and the     *)
(* verbose logging are left out: nothing reads them.  A transport 'error'  *)
(* event does not by itself close the socket; a 'close' event may follow.  *)
(***************************************************************************)
EXTENDS Integers, Sequences, FiniteSets, TLC

\* ---- bounds ----
MaxSockets == 3                 \* `new WebSocket` calls followed
MaxCalls == 2                   \* calls of connect / disconnect / watchOrderbook / unwatchOrderbook followed
MaxReconnectAttempts == 1       \* the value given to config.maxReconnectAttempts

Keys == {"a", "b"}              \* market ids
Callbacks == {"c1", "c2"}       \* callback identities
\* the (market id, callback) pairs watchOrderbook is called with
WatchInputs == {<<"a", "c1">>, <<"a", "c2">>, <<"b", "c1">>}
Sockets == 1..MaxSockets

\* WebSocketState
DISCONNECTED == "disconnected"
CONNECTING == "connecting"
CONNECTED == "connected"
RECONNECTING == "reconnecting"
CLOSED == "closed"
WebSocketState == {DISCONNECTED, CONNECTING, CONNECTED, RECONNECTING, CLOSED}

\* Inbound frames: "control" PING / PONG / empty; "text" other text that does
\* not start with '{'; "badjson" text that starts with '{' and is not JSON;
\* "parsethrow" / "parsenull" JSON for which parseOrderbookMessage throws /
\* returns null; "update" an orderbook update for a market id.
FrameKinds == {"control", "text", "badjson", "parsethrow", "parsenull", "update"}
\* what the registered callback does when it is invoked: returns, throws, or
\* returns a promise that rejects
CbBehaviours == {"ok", "throw", "reject"}

VARIABLES
  state,              \* this.state
  autoReconnect,      \* this.config.autoReconnect
  reconnectAttempts,  \* this.reconnectAttempts
  ws,                 \* this.ws: a socket id, or 0 for null
  subscriptions,      \* this.subscriptions: insertion-ordered Map, a sequence of [key, cb]
  pingTimer,          \* this.pingTimer # null
  sock,               \* every WebSocket created so far, with the connect() call that made it
  timers,             \* reconnect() calls suspended in sleep(delay)
  calls,              \* API calls made so far
  ev                  \* the handler that ran last, with its input and its outward effects

vars == <<state, autoReconnect, reconnectAttempts, ws, subscriptions, pingTimer, sock, timers, calls, ev>>

\* ---- Exchange (core/exchange.ts): the request dispatcher's state ----
VARIABLES
  now,                \* the reading of Date.now()
  config,             \* this.config: rateLimit, maxRetries, retryDelay, retryBackoff
  requestTimes,       \* this.requestTimes
  admitted,           \* the Date.now() reading at every invocation of an operation, in order
  call,               \* every withRetry call: its position, its locals, its counters
  rl                  \* the checkRateLimit call that ran last

dvars == <<now, config, requestTimes, admitted, call, rl>>

Callers == {"p1", "p2"}
NoCall == [pc |-> "idle", attempt |-> 0, lastError |-> "none", checks |-> 0, rejects |-> 0,
           invoked |-> 0, outcomes |-> <<>>, sleeps |-> 0, wakeAt |-> 0, retryAfter |-> 0,
           result |-> "none"]
NoCheck == [op |-> "none", at |-> 0, hint |-> 0]

\* the dispatcher before any request, with the constructor's defaults
DispatcherIdle ==
  /\ now = 0
  /\ config = [rateLimit |-> 10, maxRetries |-> 3, retryDelay |-> 1000, retryBackoff |-> 2]
  /\ requestTimes = <<>>
  /\ admitted = <<>>
  /\ call = [p \in Callers |-> NoCall]
  /\ rl = NoCheck

\* ---- Strategy (core/strategy.ts): the strategy engine's state ----
VARIABLES
  strategyState,      \* this.state
  tickTimer,          \* this.tickTimer: an interval id, or 0 for null
  liveTimers,         \* the intervals made by setInterval and not cleared
  timersMade,         \* setInterval calls so far
  market,             \* this.market
  positions,          \* this.positions
  openOrders,         \* this.openOrders
  startsPending,      \* start() calls awaiting fetchMarket
  refreshing,         \* tick callbacks awaiting refreshState()
  deciding,           \* tick callbacks awaiting onTick()
  stops,              \* stop() calls inside cancelAllOrders
  afterStop,          \* stop() has run and start() was not called since
  errorListener,      \* an 'error' listener is registered on the strategy
  budget,             \* calls and timer expiries still followed
  sev                 \* the step that ran last, with its outward effects

svars == <<strategyState, tickTimer, liveTimers, timersMade, market, positions, openOrders,
           startsPending, refreshing, deciding, stops, afterStop, errorListener, budget, sev>>

\* StrategyState
STOPPED == "stopped"
RUNNING == "running"
PAUSED == "paused"
StrategyState == {STOPPED, RUNNING, PAUSED}

MaxStops == 2                   \* stop() calls followed into cancelAllOrders
StopIds == 1..MaxStops
NoStop == [pc |-> "unused", arr |-> <<>>, i |-> 0, same |-> FALSE, snap |-> <<>>, results |-> <<>>]
NoSev == [op |-> "none", emitted |-> <<>>, raised |-> FALSE, refresh |-> FALSE,
          onTick |-> FALSE, fetchMarket |-> FALSE, cancel |-> "none", stop |-> 0,
          fetched |-> <<>>, old |-> <<>>, failed |-> "none"]

\* a constructed strategy that is never started
StrategyIdle ==
  /\ strategyState = STOPPED
  /\ tickTimer = 0
  /\ liveTimers = {}
  /\ timersMade = 0
  /\ market = "none"
  /\ positions = <<>>
  /\ openOrders = <<>>
  /\ startsPending = 0
  /\ refreshing = 0
  /\ deciding = 0
  /\ stops = [s \in StopIds |-> NoStop]
  /\ afterStop = FALSE
  /\ errorListener = FALSE
  /\ budget = [calls |-> 0, fires |-> 0, orders |-> 0]
  /\ sev = NoSev

\* ---- the reconnect backoff (OrderBookWebSocket.reconnect), taken alone ----
VARIABLES
  backoff             \* config.reconnectDelay, reconnectAttempts, the delay handed
                      \* to sleep() and the one handed to it the time before

bvars == <<backoff>>

MaxAttempt == 12                \* reconnect attempts followed without a connection in between
MaxDelayMs == 60000
DefaultReconnectDelay == 3000
\* config.reconnectDelay: not given, or a number of ms
ReconnectDelayMs == {0, 1, 100, 250, 500, 1000, 1500, 2000, 2500, 3000}
ReconnectDelays == {[given |-> FALSE, ms |-> 0]} \cup {[given |-> TRUE, ms |-> d] : d \in ReconnectDelayMs}
\* delays are held in units of 1/Unit ms, which makes every product with
\* 1.5 ** k, k < MaxAttempt, a whole number; the double arithmetic of the
\* code is exact on these values
Unit == 2 ^ (MaxAttempt - 1)

\* a client that never reconnects
BackoffIdle ==
  backoff = [reconnectDelay |-> [given |-> FALSE, ms |-> 0], reconnectAttempts |-> 0,
             delay |-> 0, before |-> 0]

\* ---- OrderbookManager (types/market.ts) ----
VARIABLES
  orderbooks,         \* Map<string, Orderbook>: a function on the token ids it has
  oev                 \* the call made last, with the entry it found

ovars == <<orderbooks, oev>>

Undefined == [undefined |-> TRUE]
Null == [null |-> TRUE]
MaxTimestamp == 2               \* snapshots carry the timestamps 1..MaxTimestamp
TokenIds == {"token1", "token2"}            \* ids update() is called with
QueryIds == TokenIds \cup {"nonexistent"}   \* ids the getters are called with
NoOev == [op |-> "none", id |-> "none", ob |-> Undefined, old |-> Undefined]

\* a manager nothing was stored in
OrderbookIdle ==
  /\ orderbooks = <<>>
  /\ oev = NoOev

\* ---- market-data producers (limitless-ws.ts, polymarket-ws.ts, types/market.ts) ----
VARIABLES
  limitlessState,     \* LimitlessWebSocket.state
  subscribedSlugs,    \* LimitlessWebSocket.subscribedSlugs
  tokenToSlug,        \* Map<string, string>: asset id -> market slug
  orderbookCallbacks, \* the closures onOrderbook() has pushed, in order
  orderbookManager,   \* the Map inside LimitlessWebSocket.orderbookManager
  watches,            \* the calls of watchOrderbookByMarket and where each stands
  assetSubscriptions, \* PolymarketWebSocket.assetSubscriptions: market id -> asset id
  handed,             \* the snapshots the last step handed over, in order
  fev                 \* the step made last

fvars == <<limitlessState, subscribedSlugs, tokenToSlug, orderbookCallbacks,
           orderbookManager, watches, assetSubscriptions, handed, fev>>

MaxWatches == 2                 \* calls of watchOrderbookByMarket followed
NoFev == [op |-> "none", slug |-> "", producer |-> "none"]

\* no producer has run and no market is watched
FeedIdle ==
  /\ limitlessState = "disconnected"
  /\ subscribedSlugs = <<>>
  /\ tokenToSlug = <<>>
  /\ orderbookCallbacks = <<>>
  /\ orderbookManager = <<>>
  /\ watches = <<>>
  /\ assetSubscriptions = <<>>
  /\ handed = <<>>
  /\ fev = NoFev

\* ---- Map<string, OrderbookCallback> ----
MapIndex(m, k) == IF \E i \in 1..Len(m) : m[i].key = k
                  THEN CHOOSE i \in 1..Len(m) : m[i].key = k
                  ELSE 0
MapHas(m, k) == MapIndex(m, k) # 0
MapGet(m, k) == IF MapHas(m, k) THEN m[MapIndex(m, k)].cb ELSE "none"
MapKeys(m) == {m[i].key : i \in 1..Len(m)}
MapSetAppend(m, k, c) == Append(m, [key |-> k, cb |-> c])
MapSet(m, k, c) ==
  IF MapHas(m, k)
  THEN [m EXCEPT ![MapIndex(m, k)] = [key |-> k, cb |-> c]]
  ELSE Append(m, [key |-> k, cb |-> c])
MapDeleteKeep(m, k) == m
MapDelete(m, k) ==
  LET i == MapIndex(m, k)
  IN IF i = 0 THEN m
     ELSE [j \in 1..(Len(m) - 1) |-> IF j < i THEN m[j] ELSE m[j + 1]]

\* ---- sockets ----
\* st: readyState as the handlers see it ("closing": close() called, 'close' to come)
\* pc: the 'open' handler: "idle" not run, "auth" awaiting authenticate(),
\*     "sub" awaiting subscribeOrderbook(), "done"
\* cursor: entries of subscriptions the replay loop has passed
\* promise: the promise connect() returned for this socket: "pending" or "settled"
\* caller: who awaits that promise; wkey: the market id watchOrderbook goes on to subscribe
\* replayed: keys subscribed by the replay loop and still registered
FreshSock == [st |-> "unused", pc |-> "idle", cursor |-> 0, promise |-> "none",
              caller |-> "none", wkey |-> "none", replayed |-> {}]
\* ev: op the handler; key, cb its arguments; old the callback the key had
\* before; sent the hook it called ("sub" subscribeOrderbook, "unsub"
\* unsubscribeOrderbook) for key; invoked the callbacks it called; thrown
\* whether something was thrown or rejected inside it; raised whether it let
\* an exception escape.
NoEv == [op |-> "none", key |-> "none", cb |-> "none", old |-> "none", sent |-> "none",
         invoked |-> <<>>, thrown |-> FALSE, raised |-> FALSE]

Used == {s \in Sockets : sock[s].st # "unused"}
HasFree == Used # Sockets
NextSock == CHOOSE s \in Sockets : s \notin Used /\ \A t \in Sockets : t \notin Used => s <= t

Init ==
  /\ state = DISCONNECTED
  /\ autoReconnect \in BOOLEAN
  /\ reconnectAttempts = 0
  /\ ws = 0
  /\ subscriptions = <<>>
  /\ pingTimer = FALSE
  /\ sock = [s \in Sockets |-> FreshSock]
  /\ timers = 0
  /\ calls = 0
  /\ ev = NoEv
  /\ DispatcherIdle
  /\ StrategyIdle
  /\ BackoffIdle
  /\ OrderbookIdle
  /\ FeedIdle

\* ---- connect() up to `new Promise`: the state is not CONNECTED ----
OpenSocket(sk, who, k) ==
  [sk EXCEPT ![NextSock] = [FreshSock EXCEPT !.st = "connecting", !.promise = "pending",
                                             !.caller = who, !.wkey = k]]

\* ---- reconnect() up to `await this.sleep(delay)` ----
\* c is the record [state, reconnectAttempts, timers].
reconnect(c) ==
  IF c.reconnectAttempts >= MaxReconnectAttempts
  THEN [c EXCEPT !.state = CLOSED]
  ELSE [c EXCEPT !.state = RECONNECTING,
                 !.reconnectAttempts = c.reconnectAttempts + 1,
                 !.timers = c.timers + 1]

Cur == [state |-> state, reconnectAttempts |-> reconnectAttempts, timers |-> timers]

\* the guard shared by handleClose and by the catch in reconnect()
MayReconnect(auto, st) == auto /\ st # CLOSED

ReconnectIfAllowed(c) == IF MayReconnect(autoReconnect, c.state) THEN reconnect(c) ELSE c

SetCur(c) ==
  /\ state' = c.state
  /\ reconnectAttempts' = c.reconnectAttempts
  /\ timers' = c.timers

\* ---- handleMessage ----
\* The result of a handler: the callbacks it invoked, whether something was
\* thrown or rejected inside it, whether an exception or an unhandled
\* rejection escaped it.
\* All of OrderBookWebSocket.handleMessage after the timestamp is inside
\* try/catch, the catch logs; the promise of the callback has a catch handler.
handleMessageNoCatch(m, kind, k, beh) ==
  IF kind = "control"
  THEN [invoked |-> <<>>, thrown |-> FALSE, raised |-> FALSE]
  ELSE LET dispatched == kind = "update" /\ MapHas(m, k)
           thrown == \/ kind \in {"text", "badjson", "parsethrow"}
                     \/ dispatched /\ beh = "throw"
           rejected == dispatched /\ beh = "reject"
       IN [invoked |-> IF dispatched THEN <<MapGet(m, k)>> ELSE <<>>,
           thrown |-> thrown \/ rejected,
           raised |-> thrown]

handleMessage(m, kind, k, beh) ==
  IF kind = "control"
  THEN [invoked |-> <<>>, thrown |-> FALSE, raised |-> FALSE]
  ELSE LET dispatched == kind = "update" /\ MapHas(m, k)
           thrown == \/ kind \in {"text", "badjson", "parsethrow"}
                     \/ dispatched /\ beh = "throw"
           rejected == dispatched /\ beh = "reject"
       IN [invoked |-> IF dispatched THEN <<MapGet(m, k)>> ELSE <<>>,
           thrown |-> thrown \/ rejected,
           raised |-> FALSE]

\* PolymarketWebSocket.handleMessage: a frame that does not start with '{'
\* returns before the try block; the catch returns.
polymarketHandleMessage(m, kind, k, beh) ==
  IF kind \in {"control", "text"}
  THEN [invoked |-> <<>>, thrown |-> FALSE, raised |-> FALSE]
  ELSE LET dispatched == kind = "update" /\ MapHas(m, k)
           thrown == \/ kind \in {"badjson", "parsethrow"}
                     \/ dispatched /\ beh = "throw"
           rejected == dispatched /\ beh = "reject"
       IN [invoked |-> IF dispatched THEN <<MapGet(m, k)>> ELSE <<>>,
           thrown |-> thrown \/ rejected,
           raised |-> FALSE]

\* ---- actions ----

\* connect() called by the user
Connect ==
  /\ calls < MaxCalls
  /\ calls' = calls + 1
  /\ IF state = CONNECTED
     THEN UNCHANGED <<state, ws, sock>>
     ELSE /\ HasFree
          /\ state' = CONNECTING
          /\ ws' = NextSock
          /\ sock' = OpenSocket(sock, "user", "none")
  /\ ev' = [NoEv EXCEPT !.op = "connect"]
  /\ UNCHANGED <<autoReconnect, reconnectAttempts, subscriptions, pingTimer, timers>>

\* ws.close() as disconnect() calls it
CloseSocketNot(sk, s) == sk
CloseSocket(sk, s) ==
  IF sk[s].st \in {"connecting", "open"} THEN [sk EXCEPT ![s].st = "closing"] ELSE sk

disconnect ==
  /\ calls < MaxCalls
  /\ calls' = calls + 1
  /\ state' = CLOSED
  /\ autoReconnect' = FALSE
  /\ pingTimer' = FALSE
  /\ IF ws # 0
     THEN sock' = CloseSocket(sock, ws) /\ ws' = 0
     ELSE UNCHANGED <<sock, ws>>
  /\ ev' = [NoEv EXCEPT !.op = "disconnect"]
  /\ UNCHANGED <<reconnectAttempts, subscriptions, timers>>

watchOrderbook(k, c) ==
  /\ calls < MaxCalls
  /\ calls' = calls + 1
  /\ subscriptions' = MapSet(subscriptions, k, c)
  /\ IF state # CONNECTED
     THEN /\ HasFree
          /\ state' = CONNECTING
          /\ ws' = NextSock
          /\ sock' = OpenSocket(sock, "watch", k)
          /\ ev' = [NoEv EXCEPT !.op = "watch", !.key = k, !.cb = c,
                                !.old = MapGet(subscriptions, k)]
     ELSE /\ UNCHANGED <<state, ws, sock>>
          /\ ev' = [NoEv EXCEPT !.op = "watch", !.key = k, !.cb = c,
                                !.old = MapGet(subscriptions, k), !.sent = "sub"]
  /\ UNCHANGED <<autoReconnect, reconnectAttempts, pingTimer, timers>>

\* Map.delete under a live iterator: an entry removed at or before the
\* iterator's position does not make the iterator skip or repeat an entry.
DropKey(sk, k, i) ==
  [s \in Sockets |->
     [sk[s] EXCEPT !.cursor = IF sk[s].pc = "sub" /\ i <= sk[s].cursor
                              THEN sk[s].cursor - 1 ELSE sk[s].cursor,
                   !.replayed = sk[s].replayed \ {k}]]

unwatchOrderbook(k) ==
  /\ calls < MaxCalls
  /\ calls' = calls + 1
  /\ IF ~MapHas(subscriptions, k)
     THEN /\ UNCHANGED <<subscriptions, sock>>
          /\ ev' = [NoEv EXCEPT !.op = "unwatch", !.key = k]
     ELSE /\ subscriptions' = MapDelete(subscriptions, k)
          /\ sock' = DropKey(sock, k, MapIndex(subscriptions, k))
          /\ ev' = [NoEv EXCEPT !.op = "unwatch", !.key = k,
                                !.old = MapGet(subscriptions, k),
                                !.sent = IF state = CONNECTED THEN "unsub" ELSE "none"]
  /\ UNCHANGED <<state, autoReconnect, reconnectAttempts, ws, pingTimer, timers>>

\* the 'open' handler up to `await this.authenticate()`
SocketOpenKeepsAttempts(s) ==
  /\ sock[s].st = "connecting"
  /\ state' = CONNECTED
  /\ sock' = [sock EXCEPT ![s].st = "open", ![s].pc = "auth"]
  /\ ev' = [NoEv EXCEPT !.op = "open"]
  /\ UNCHANGED <<autoReconnect, reconnectAttempts, ws, subscriptions, pingTimer, timers, calls>>
SocketOpen(s) ==
  /\ sock[s].st = "connecting"
  /\ state' = CONNECTED
  /\ reconnectAttempts' = 0
  /\ sock' = [sock EXCEPT ![s].st = "open", ![s].pc = "auth"]
  /\ ev' = [NoEv EXCEPT !.op = "open"]
  /\ UNCHANGED <<autoReconnect, ws, subscriptions, pingTimer, timers, calls>>

\* the replay loop `for (const marketId of this.subscriptions.keys())`: whether
\* the iterator, having passed cur entries, yields another one
ReplayHasNextNone(m, cur) == FALSE
ReplayHasNext(m, cur) == cur < Len(m)

\* The 'open' handler resumes after authenticate() or subscribeOrderbook()
\* returned: it subscribes the next entry of the map, or, with no entry
\* left, starts the ping timer and resolves; watchOrderbook, awaiting the
\* promise, then subscribes its own market id.
OpenHandlerResume(s) ==
  /\ sock[s].pc \in {"auth", "sub"}
  /\ IF ReplayHasNext(subscriptions, sock[s].cursor)
     THEN LET k == subscriptions[sock[s].cursor + 1].key
          IN /\ sock' = [sock EXCEPT ![s].pc = "sub",
                                     ![s].cursor = sock[s].cursor + 1,
                                     ![s].replayed = sock[s].replayed \cup {k}]
             /\ ev' = [NoEv EXCEPT !.op = "replay", !.key = k, !.sent = "sub"]
             /\ UNCHANGED pingTimer
     ELSE /\ pingTimer' = TRUE
          /\ sock' = [sock EXCEPT ![s].pc = "done", ![s].cursor = 0, ![s].replayed = {},
                                  ![s].promise = "settled",
                                  ![s].caller = "none", ![s].wkey = "none"]
          /\ ev' = IF sock[s].caller = "watch"
                   THEN [NoEv EXCEPT !.op = "resolve",
                                     !.key = sock[s].wkey, !.sent = "sub"]
                   ELSE [NoEv EXCEPT !.op = "resolve"]
  /\ UNCHANGED <<state, autoReconnect, reconnectAttempts, ws, subscriptions, timers, calls>>

\* authenticate() throws: the catch of the 'open' handler rejects; reconnect(),
\* awaiting the promise, catches and may reconnect again.
AuthFail(s) ==
  /\ sock[s].pc = "auth"
  /\ sock' = [sock EXCEPT ![s].pc = "done", ![s].cursor = 0, ![s].replayed = {},
                          ![s].promise = "settled",
                          ![s].caller = "none", ![s].wkey = "none"]
  /\ IF sock[s].caller = "reconnect"
     THEN SetCur(ReconnectIfAllowed(Cur))
     ELSE UNCHANGED <<state, reconnectAttempts, timers>>
  /\ ev' = [NoEv EXCEPT !.op = "authfail"]
  /\ UNCHANGED <<autoReconnect, ws, subscriptions, pingTimer, calls>>

\* 'message' event
Message(kind, k, beh) ==
  /\ \E s \in Sockets : sock[s].st = "open"
  /\ kind # "update" => k = "none"
  /\ kind = "update" => k \in Keys
  /\ (kind = "update" /\ MapHas(subscriptions, k)) \/ beh = "ok"
  /\ \E r \in {handleMessage(subscriptions, kind, k, beh),
               polymarketHandleMessage(subscriptions, kind, k, beh)} :
        ev' = [NoEv EXCEPT !.op = "message", !.key = k, !.invoked = r.invoked,
                           !.thrown = r.thrown, !.raised = r.raised]
  /\ UNCHANGED <<state, autoReconnect, reconnectAttempts, ws, subscriptions, pingTimer,
                 sock, timers, calls>>

\* EventEmitter.emit('error', e) throws e when no 'error' listener is registered.
EmitErrorThrows(hasListener) == ~hasListener

\* 'error' event: handleError
SocketError(s, hasListener) ==
  /\ sock[s].st \in {"connecting", "open"}
  /\ ev' = [NoEv EXCEPT !.op = "error", !.raised = EmitErrorThrows(hasListener)]
  /\ UNCHANGED <<state, autoReconnect, reconnectAttempts, ws, subscriptions, pingTimer,
                 sock, timers, calls>>

\* 'close' event: handleClose
SocketClose(s) ==
  /\ sock[s].st \in {"connecting", "open", "closing"}
  /\ sock' = IF sock[s].pc = "idle"
             THEN [sock EXCEPT ![s].st = "closed", ![s].caller = "none", ![s].wkey = "none"]
             ELSE [sock EXCEPT ![s].st = "closed"]
  /\ pingTimer' = FALSE
  /\ SetCur(ReconnectIfAllowed(Cur))
  /\ ev' = [NoEv EXCEPT !.op = "close"]
  /\ UNCHANGED <<autoReconnect, ws, subscriptions, calls>>

\* sleep(delay) elapses in reconnect(): `await this.connect()`
ReconnectTimer ==
  /\ timers > 0
  /\ timers' = timers - 1
  /\ IF state = CONNECTED
     THEN UNCHANGED <<state, ws, sock>>
     ELSE /\ HasFree
          /\ state' = CONNECTING
          /\ ws' = NextSock
          /\ sock' = OpenSocket(sock, "reconnect", "none")
  /\ ev' = [NoEv EXCEPT !.op = "timer"]
  /\ UNCHANGED <<autoReconnect, reconnectAttempts, subscriptions, pingTimer, calls>>

Next ==
  \/ Connect /\ UNCHANGED <<dvars, svars, bvars, ovars, fvars>>
  \/ disconnect /\ UNCHANGED <<dvars, svars, bvars, ovars, fvars>>
  \/ \E w \in WatchInputs : watchOrderbook(w[1], w[2]) /\ UNCHANGED <<dvars, svars, bvars, ovars, fvars>>
  \/ \E k \in Keys : unwatchOrderbook(k) /\ UNCHANGED <<dvars, svars, bvars, ovars, fvars>>
  \/ \E s \in Sockets : SocketOpen(s) /\ UNCHANGED <<dvars, svars, bvars, ovars, fvars>>
  \/ \E s \in Sockets : OpenHandlerResume(s) /\ UNCHANGED <<dvars, svars, bvars, ovars, fvars>>
  \/ \E s \in Sockets : AuthFail(s) /\ UNCHANGED <<dvars, svars, bvars, ovars, fvars>>
  \/ \E kind \in FrameKinds, k \in Keys \cup {"none"}, beh \in CbBehaviours :
        Message(kind, k, beh) /\ UNCHANGED <<dvars, svars, bvars, ovars, fvars>>
  \/ \E s \in Sockets, l \in BOOLEAN : SocketError(s, l) /\ UNCHANGED <<dvars, svars, bvars, ovars, fvars>>
  \/ \E s \in Sockets : SocketClose(s) /\ UNCHANGED <<dvars, svars, bvars, ovars, fvars>>
  \/ ReconnectTimer /\ UNCHANGED <<dvars, svars, bvars, ovars, fvars>>

Spec == Init /\ [][Next]_vars

TypeOK ==
  /\ state \in WebSocketState
  /\ autoReconnect \in BOOLEAN
  /\ reconnectAttempts \in Nat
  /\ ws \in 0..MaxSockets
  /\ pingTimer \in BOOLEAN
  /\ timers \in Nat
  /\ calls \in 0..MaxCalls
  /\ \A s \in Sockets : sock[s].cursor <= Len(subscriptions)

\* ---- claims ----

Entries(m, k) == {i \in 1..Len(m) : m[i].key = k}
ClientVars == <<state, autoReconnect, reconnectAttempts, ws, subscriptions, pingTimer, sock, timers>>

\* C1: once the state is Closed it stays Closed and no new socket is opened.
C1_ClosedIsTerminal ==
  [][state = CLOSED => (state' = CLOSED /\ Used' = Used)]_vars

\* C2: when authenticate() fails, connect() rejects and the state is not
\* Connected afterwards.
C2_AuthFailureLeavesNotConnected ==
  ev.op = "authfail" => state # CONNECTED

\* C3: every connect() settles; in particular the promise of a socket that
\* closed before it opened is no longer pending once its 'close' was handled.
C3_ConnectSettles ==
  \A s \in Sockets : (sock[s].st = "closed" /\ sock[s].pc = "idle") => sock[s].promise # "pending"

\* C4: on every open the replay subscribes only after authenticate() was
\* awaited and only registered keys, and connect() resolves only when every
\* key then registered has been subscribed by the replay.
C4_AuthThenReplayThenResolve ==
  [][\A s \in Sockets :
       /\ (ev'.op = "replay" /\ sock'[s].cursor # sock[s].cursor) =>
             /\ sock[s].pc \in {"auth", "sub"}
             /\ sock[s].promise = "pending"
             /\ MapHas(subscriptions, ev'.key)
             /\ ev'.sent = "sub"
       /\ (ev'.op = "resolve" /\ sock'[s].promise # sock[s].promise) =>
             /\ sock[s].pc \in {"auth", "sub"}
             /\ MapKeys(subscriptions) \subseteq sock[s].replayed
    ]_vars

C4_Witness ==
  ev.op = "resolve" /\ Len(subscriptions) = 2

NoneOpened == \A s \in Sockets : sock[s].pc = "idle"

\* C5: when no connection attempt succeeds the attempt counter never exceeds
\* maxReconnectAttempts, and once the attempts are exhausted (the state is
\* Closed with auto-reconnect still on) the client itself opens no socket and
\* stays Closed.
C5_GivesUpAfterMaxAttempts ==
  /\ [](reconnectAttempts <= MaxReconnectAttempts)
  /\ [][(state = CLOSED /\ autoReconnect /\ NoneOpened /\ calls' = calls) =>
          (state' = CLOSED /\ Used' = Used)]_vars

\* C6: disconnect() leaves the client Closed, auto-reconnect off, the ping
\* timer stopped, the socket closed and this.ws null, and raises nothing; on a
\* client already in that state it changes nothing.
C6_DisconnectIdempotent ==
  [][ev'.op = "disconnect" =>
       /\ state' = CLOSED
       /\ ~autoReconnect'
       /\ ~pingTimer'
       /\ ws' = 0
       /\ ws # 0 => sock'[ws].st \in {"closing", "closed"}
       /\ ~ev'.raised
       /\ (state = CLOSED /\ ~autoReconnect /\ ~pingTimer /\ ws = 0) => UNCHANGED ClientVars
    ]_vars

C6_Witness ==
  ev.op = "disconnect" /\ \E s \in Sockets : sock[s].st = "closing" /\ sock[s].pc # "idle"

\* C7: handling a frame never raises, changes neither the connection state
\* nor the subscriptions, and a frame for a registered key is dispatched
\* whatever the frames before it were.
C7_MessageHandlingNeverRaises ==
  [][ev'.op = "message" =>
       /\ ~ev'.raised
       /\ UNCHANGED ClientVars
       /\ MapHas(subscriptions, ev'.key) => Len(ev'.invoked) = 1
    ]_vars

C7_Witness ==
  ev.op = "message" /\ ev.thrown /\ ev.invoked # <<>>

\* C8: a transport 'error' event never raises out of the client.
C8_ErrorNeverRaises ==
  ev.op = "error" => ~ev.raised

\* C9: the subscriptions hold at most one entry per key, after watch(k, c)
\* that entry is c, and an update for k invokes exactly the registered
\* callback, once.
C9_RewatchOverwrites ==
  /\ [](\A k \in Keys : Cardinality(Entries(subscriptions, k)) <= 1)
  /\ [](ev.op = "watch" =>
          /\ Cardinality(Entries(subscriptions, ev.key)) = 1
          /\ MapGet(subscriptions, ev.key) = ev.cb)
  /\ [][(ev'.op = "message" /\ MapHas(subscriptions, ev'.key)) =>
          ev'.invoked = <<MapGet(subscriptions, ev'.key)>>]_vars
  /\ [][(ev.op = "watch" /\ ev'.op = "message" /\ ev'.key = ev.key) =>
          ev'.invoked = <<ev.cb>>]_vars

C9_Witness ==
  ev.op = "watch" /\ ev.old = "c1" /\ ev.cb = "c2"

\* C10: unwatch(k) of a registered key removes its entry only and calls
\* unsubscribeOrderbook exactly when the state is Connected; afterwards an
\* update for k invokes nothing and the replay does not subscribe k; unwatch
\* of an unregistered key changes nothing and sends nothing.
C10_Unwatch ==
  /\ [](ev.op = "unwatch" => ~MapHas(subscriptions, ev.key))
  /\ [][ev'.op = "unwatch" =>
          IF MapHas(subscriptions, ev'.key)
          THEN /\ (ev'.sent = "unsub") <=> (state = CONNECTED)
               /\ MapKeys(subscriptions') = MapKeys(subscriptions) \ {ev'.key}
               /\ \A k \in MapKeys(subscriptions') :
                     MapGet(subscriptions', k) = MapGet(subscriptions, k)
               /\ UNCHANGED <<state, autoReconnect, reconnectAttempts, ws, pingTimer, timers>>
          ELSE ev'.sent = "none" /\ UNCHANGED ClientVars]_vars
  /\ [][(ev'.op = "message" /\ ev'.key \in Keys /\ ~MapHas(subscriptions, ev'.key)) =>
          ev'.invoked = <<>>]_vars
  /\ [][ev'.op = "replay" => MapHas(subscriptions, ev'.key)]_vars

C10_Witness ==
  ev.op = "unwatch" /\ ev.sent = "unsub"

\* ======================================================================
\* Exchange.checkRateLimit / Exchange.withRetry (core/exchange.ts).
\* Several withRetry calls share one Exchange.  A call is cut at its two
\* awaits: `await fn()` and `await this.sleep(delay)`.  Date.now() is read
\* in whole milliseconds and does not go back; the model reads it every
\* ClockStep ms.  A timer may fire late, never early.
\* ======================================================================
WindowMs == 1000                \* the window of checkRateLimit
ClockStep == 250                \* ms between two readings of the clock
MaxElapsed == 1000              \* ms of clock followed
MaxRateLimit == 3               \* config.rateLimit is drawn from 1..MaxRateLimit
MaxMaxRetries == 2              \* config.maxRetries is drawn from 0..MaxMaxRetries

RetryDelays == {0, ClockStep}   \* config.retryDelay
Jitters == {0, WindowMs - ClockStep}     \* Math.random() * 1000, in [0, 1000)

\* errors/index.ts: the classes an operation can fail with ("Error" is any
\* error outside the DrManhattanError hierarchy)
ErrorClasses == {"NetworkError", "RateLimitError", "AuthenticationError", "InvalidOrder",
                 "MarketNotFound", "ExchangeError", "Error"}
Outcomes == {"ok"} \cup ErrorClasses

DispatcherInit ==
  /\ now = ClockStep
  /\ config \in [rateLimit : 1..MaxRateLimit, maxRetries : 0..MaxMaxRetries,
                 retryDelay : RetryDelays, retryBackoff : {2}]
  /\ requestTimes = <<>>
  /\ admitted = <<>>
  /\ call = [p \in Callers |-> NoCall]
  /\ rl = NoCheck

\* this.requestTimes.filter((t) => currentTime - t < 1000)
FilterWindow(times, currentTime) == SelectSeq(times, LAMBDA x : currentTime - x < WindowMs)

\* checkRateLimit(): the new requestTimes, whether it throws RateLimitError,
\* and the error's retryAfter.  requestTimes[0] of an empty array is
\* undefined, and a timestamp 0 is falsy.
checkRateLimitNoThrow(times, currentTime, rateLimit) ==
  [requestTimes |-> Append(FilterWindow(times, currentTime), currentTime),
   thrown |-> FALSE, retryAfter |-> 0]
checkRateLimitNewest(times, currentTime, rateLimit) ==
  LET kept == FilterWindow(times, currentTime)
      newestRequest == IF kept = <<>> THEN 0 ELSE kept[Len(kept)]
      sleepTime == WindowMs - (currentTime - newestRequest)
      throws == Len(kept) >= rateLimit /\ newestRequest # 0 /\ sleepTime > 0
  IN  [requestTimes |-> IF throws THEN kept ELSE Append(kept, currentTime),
       thrown |-> throws,
       retryAfter |-> IF throws THEN sleepTime ELSE 0]
checkRateLimit(times, currentTime, rateLimit) ==
  LET kept == FilterWindow(times, currentTime)
      oldestRequest == IF kept = <<>> THEN 0 ELSE kept[1]
      sleepTime == WindowMs - (currentTime - oldestRequest)
      throws == Len(kept) >= rateLimit /\ oldestRequest # 0 /\ sleepTime > 0
  IN  [requestTimes |-> IF throws THEN kept ELSE Append(kept, currentTime),
       thrown |-> throws,
       retryAfter |-> IF throws THEN sleepTime ELSE 0]

\* error instanceof NetworkError || error instanceof RateLimitError
RetryableAny(error) == TRUE
Retryable(error) == error \in {"NetworkError", "RateLimitError"}

\* attempt < maxRetries
CanRetryOnceMore(attempt, maxRetries) == attempt <= maxRetries
CanRetry(attempt, maxRetries) == attempt < maxRetries

\* retryDelay * retryBackoff ** attempt + Math.random() * 1000
Delay(cfg, attempt, jitter) == cfg.retryDelay * cfg.retryBackoff ^ attempt + jitter

\* this.checkRateLimit() is inside the loop body: it runs in every attempt
RateLimitCheckedFirstOnly(attempt) == attempt = 0
RateLimitChecked(attempt) == TRUE

\* the catch block of withRetry, for call record c and the error caught
Catch(c, error, jitter) ==
  IF Retryable(error) /\ CanRetry(c.attempt, config.maxRetries)
  THEN [c EXCEPT !.pc = "sleeping", !.lastError = error, !.sleeps = @ + 1,
                 !.wakeAt = now + Delay(config, c.attempt, jitter)]
  ELSE [c EXCEPT !.pc = "done", !.lastError = error, !.result = error]

\* one pass through the try block up to `await fn()`
RunAttempt(p, c, jitter) ==
  IF RateLimitChecked(c.attempt)
  THEN LET r == checkRateLimit(requestTimes, now, config.rateLimit)
           d == [c EXCEPT !.checks = @ + 1, !.retryAfter = r.retryAfter]
       IN  /\ requestTimes' = r.requestTimes
           /\ rl' = [op |-> IF r.thrown THEN "reject" ELSE "admit", at |-> now,
                     hint |-> r.retryAfter]
           /\ IF r.thrown
              THEN /\ call' = [call EXCEPT ![p] =
                                Catch([d EXCEPT !.rejects = @ + 1], "RateLimitError", jitter)]
                   /\ admitted' = admitted
              ELSE /\ call' = [call EXCEPT ![p] = [d EXCEPT !.pc = "fn", !.invoked = @ + 1]]
                   /\ admitted' = Append(admitted, now)
  ELSE /\ call' = [call EXCEPT ![p] = [c EXCEPT !.pc = "fn", !.invoked = @ + 1]]
       /\ admitted' = Append(admitted, now)
       /\ UNCHANGED <<requestTimes, rl>>

\* withRetry(fn) is called: the first attempt, up to its first await
withRetry(p, jitter) ==
  /\ call[p].pc = "idle"
  /\ RunAttempt(p, call[p], jitter)
  /\ UNCHANGED <<now, config>>

\* the promise of fn() settles: `return` on success, the catch block on failure
FnSettles(p, outcome, jitter) ==
  /\ call[p].pc = "fn"
  /\ LET c == [call[p] EXCEPT !.outcomes = Append(@, outcome)]
     IN  call' = [call EXCEPT ![p] =
                    IF outcome = "ok" THEN [c EXCEPT !.pc = "done", !.result = "ok"]
                    ELSE Catch(c, outcome, jitter)]
  /\ UNCHANGED <<now, config, requestTimes, admitted, rl>>

\* attempt <= maxRetries
LoopContinues(attempt, maxRetries) == attempt <= maxRetries

\* sleep(delay) is over: `continue`, attempt++, the loop test, the next
\* attempt; `throw lastError` after the loop
SleepOver(p, jitter) ==
  /\ call[p].pc = "sleeping"
  /\ now >= call[p].wakeAt
  /\ LET c == [call[p] EXCEPT !.attempt = @ + 1, !.wakeAt = 0]
     IN  IF LoopContinues(c.attempt, config.maxRetries)
         THEN RunAttempt(p, c, jitter)
         ELSE /\ call' = [call EXCEPT ![p] = [c EXCEPT !.pc = "done", !.result = c.lastError]]
              /\ UNCHANGED <<requestTimes, admitted, rl>>
  /\ UNCHANGED <<now, config>>

ClockAdvances ==
  /\ now < ClockStep + MaxElapsed
  /\ now' = now + ClockStep
  /\ UNCHANGED <<config, requestTimes, admitted, call, rl>>

DispatcherNext ==
  \/ \E p \in Callers, j \in Jitters : withRetry(p, j) /\ UNCHANGED <<vars, svars, bvars, ovars, fvars>>
  \/ \E p \in Callers, o \in Outcomes, j \in Jitters : FnSettles(p, o, j) /\ UNCHANGED <<vars, svars, bvars, ovars, fvars>>
  \/ \E p \in Callers, j \in Jitters : SleepOver(p, j) /\ UNCHANGED <<vars, svars, bvars, ovars, fvars>>
  \/ ClockAdvances /\ UNCHANGED <<vars, svars, bvars, ovars, fvars>>

\* the streaming client, not connected and never used
ClientIdle ==
  /\ state = DISCONNECTED
  /\ autoReconnect = TRUE
  /\ reconnectAttempts = 0
  /\ ws = 0
  /\ subscriptions = <<>>
  /\ pingTimer = FALSE
  /\ sock = [s \in Sockets |-> FreshSock]
  /\ timers = 0
  /\ calls = 0
  /\ ev = NoEv

DispatcherStart == DispatcherInit /\ ClientIdle /\ StrategyIdle /\ BackoffIdle /\ OrderbookIdle /\ FeedIdle

DispatcherSpec == DispatcherStart /\ [][DispatcherNext]_dvars

DispatcherTypeOK ==
  /\ now \in Nat
  /\ \A p \in Callers :
       /\ call[p].pc \in {"idle", "fn", "sleeping", "done"}
       /\ call[p].result \in {"none"} \cup Outcomes
  /\ rl.op \in {"none", "admit", "reject"}

\* ---- claims about the dispatcher ----

\* the invocations whose Date.now() reading lies in [t, t + 1000)
InWindow(t) == {i \in 1..Len(admitted) : admitted[i] >= t /\ admitted[i] < t + WindowMs}
Last(s) == s[Len(s)]

\* C11: in every interleaving of withRetry calls sharing the Exchange, first
\* attempts and retries alike, the operation invocations within any window of
\* 1000 ms (it is enough to look at the windows that start at an invocation)
\* never exceed config.rateLimit.
C11_RateBounded ==
  \A i \in 1..Len(admitted) : Cardinality(InWindow(admitted[i])) <= config.rateLimit

\* a retry of one caller is rejected while the window is filled by
\* invocations of both callers
C11_Witness ==
  /\ rl.op = "reject"
  /\ \E i \in 1..Len(admitted) : Cardinality(InWindow(admitted[i])) = config.rateLimit
  /\ \A p \in Callers : call[p].invoked > 0
  /\ \E p \in Callers : call[p].attempt > 0 /\ call[p].rejects > 0

\* C12: a sleep and a further attempt follow only a failure with NetworkError
\* or RateLimitError; a failure of any other class ends the call at once with
\* that error: no sleep, no further attempt, and when it is the first
\* attempt's, after exactly one invocation.
C12_RetriesOnlyTransient ==
  /\ [](\A p \in Callers :
          LET c == call[p] IN
          /\ c.pc = "sleeping" => c.lastError \in {"NetworkError", "RateLimitError"}
          /\ \A i \in 1..(Len(c.outcomes) - 1) :
               c.outcomes[i] \in {"NetworkError", "RateLimitError"}
          /\ (c.outcomes # <<>> /\ Last(c.outcomes) \notin {"ok", "NetworkError", "RateLimitError"})
               => /\ c.pc = "done"
                  /\ c.result = Last(c.outcomes)
                  /\ c.invoked = Len(c.outcomes)
                  /\ (Len(c.outcomes) = 1 => c.invoked = 1 /\ c.sleeps = c.rejects))
  /\ [][\A p \in Callers :
          (call'[p].outcomes # call[p].outcomes
             /\ Last(call'[p].outcomes) \notin {"ok", "NetworkError", "RateLimitError"})
            => /\ call'[p].pc = "done"
               /\ call'[p].sleeps = call[p].sleeps
               /\ call'[p].checks = call[p].checks
               /\ call'[p].invoked = call[p].invoked]_dvars
  /\ [][\A p \in Callers : call[p].pc = "done" => call'[p] = call[p]]_dvars

C12_Witness ==
  \E p \in Callers : /\ call[p].outcomes = <<"InvalidOrder">>
                     /\ call[p].attempt = 0
                     /\ config.maxRetries > 0
                     /\ call[p].pc = "done"

\* C13: a withRetry call makes at most maxRetries + 1 attempts, each one
\* rate-limit check and at most one invocation; it is never asleep after its
\* last attempt; it returns the value of the first successful invocation, or
\* ends with the error of its last attempt; with maxRetries = 0 it invokes
\* the operation at most once.
C13_BoundedAttempts ==
  \A p \in Callers :
    LET c == call[p] IN
    /\ c.checks <= config.maxRetries + 1
    /\ c.invoked <= c.checks
    /\ c.attempt <= config.maxRetries
    /\ c.pc = "sleeping" => c.attempt < config.maxRetries
    /\ c.pc # "idle" => c.checks = c.attempt + 1
    /\ config.maxRetries = 0 => c.invoked <= 1 /\ c.sleeps = 0
    /\ c.result = "ok" => /\ Last(c.outcomes) = "ok"
                          /\ \A i \in 1..(Len(c.outcomes) - 1) : c.outcomes[i] # "ok"
    /\ (c.pc = "done" /\ c.result # "ok")
         => /\ c.result = c.lastError
            /\ c.result = (IF c.retryAfter > 0 THEN "RateLimitError" ELSE Last(c.outcomes))

C13_Witness ==
  \E p \in Callers : /\ config.maxRetries = MaxMaxRetries
                     /\ call[p].pc = "done"
                     /\ call[p].result = "NetworkError"
                     /\ call[p].checks = MaxMaxRetries + 1
                     /\ call[p].invoked = MaxMaxRetries + 1

\* C14: the rate-limit check runs exactly once before each invocation: every
\* invocation happens in the step of an admitting check, the checks of a call
\* are its invocations plus its rejections, and a call whose operation fails
\* with NetworkError twice and then succeeds, no check of it being rejected,
\* returns the value after exactly 3 checks and 3 invocations.
C14_CheckBeforeEachInvocation ==
  /\ [](\A p \in Callers :
          LET c == call[p] IN
          /\ c.checks = c.invoked + c.rejects
          /\ (c.outcomes = <<"NetworkError", "NetworkError", "ok">> /\ c.rejects = 0)
               => c.pc = "done" /\ c.result = "ok" /\ c.checks = 3 /\ c.invoked = 3)
  /\ [][\A p \in Callers :
          call'[p].invoked # call[p].invoked
            => /\ call'[p].invoked = call[p].invoked + 1
               /\ call'[p].checks = call[p].checks + 1
               /\ rl'.op = "admit" /\ rl'.at = now
               /\ Len(admitted') = Len(admitted) + 1]_dvars

C14_Witness ==
  \E p \in Callers : /\ call[p].outcomes = <<"NetworkError", "NetworkError", "ok">>
                     /\ call[p].rejects = 0
                     /\ call[p].result = "ok"

\* the invocations still in the window of a check made at time t
StillInWindow(t) == {i \in 1..Len(admitted) : t - admitted[i] < WindowMs}
OldestInWindow(t) ==
  CHOOSE x \in {admitted[i] : i \in StillInWindow(t)} :
    \A y \in {admitted[i] : i \in StillInWindow(t)} : x <= y
Checked == \E p \in Callers : call'[p].checks # call[p].checks

\* C15 as stated: the wait hint of a rejection is 1000 ms minus the time since
\* the oldest timestamp still in the window, and lies strictly between 0 and
\* 1000 ms.
C15_HintStrictlyInside ==
  rl.op = "reject" =>
    /\ rl.hint = WindowMs - (rl.at - OldestInWindow(rl.at))
    /\ 0 < rl.hint /\ rl.hint < WindowMs

\* C15 amended: a check is rejected exactly when rateLimit invocations are
\* still in the window; the wait hint of a rejection is 1000 ms minus the time
\* since the oldest of them, and is greater than 0 and at most 1000 ms (1000
\* when the rejected call reads the same millisecond as the oldest one).
C15_HintWithinWindow ==
  /\ [](rl.op = "reject" =>
          /\ rl.hint = WindowMs - (rl.at - OldestInWindow(rl.at))
          /\ 0 < rl.hint /\ rl.hint <= WindowMs)
  /\ [][Checked =>
          /\ rl'.at = now
          /\ (rl'.op = "reject") <=> (Cardinality(StillInWindow(now)) >= config.rateLimit)
          /\ rl'.op = "reject" => admitted' = admitted]_dvars

\* rateLimit 3: three invocations within 500 ms, a fourth call inside the
\* same window is rejected
C15_Witness ==
  /\ rl.op = "reject"
  /\ config.rateLimit = 3
  /\ Len(admitted) = 3
  /\ admitted[3] - admitted[1] <= 2 * ClockStep
  /\ admitted[3] > admitted[1]
  /\ rl.at > admitted[3]
  /\ rl.hint < WindowMs

\* ======================================================================
\* Strategy (core/strategy.ts): start / stop / pause / resume, the tick
\* callback of setInterval, refreshState, cancelAllOrders, placeOrder.
\* An async method is cut at the awaits of the exchange calls (fetchMarket,
\* fetchPositions + fetchOpenOrders, cancelOrder) and of onTick(); the
\* code between two of them is one step.  Tick callbacks in flight differ
\* only in where they wait, so they are counted.  onTick() is abstract:
\* it returns or throws, and may call placeOrder while it runs.
\* ======================================================================
MaxStrategyCalls == 4           \* start / stop / pause / resume calls followed
MaxFires == 3                   \* timer expiries followed
MaxTimers == 2                  \* setInterval calls followed
MaxPlaced == 1                  \* placeOrder calls followed

\* what fetchOpenOrders / fetchPositions return
OrderLists == {<<>>, <<"o1">>, <<"o1", "o2">>}
PositionLists == {<<>>, <<"yes">>}
\* the order createOrder returns
NewOrder == "o3"

StrategyInit ==
  /\ strategyState = STOPPED
  /\ tickTimer = 0
  /\ liveTimers = {}
  /\ timersMade = 0
  /\ market = "none"
  /\ positions = <<>>
  /\ openOrders = <<>>
  /\ startsPending = 0
  /\ refreshing = 0
  /\ deciding = 0
  /\ stops = [s \in StopIds |-> NoStop]
  /\ afterStop = FALSE
  /\ errorListener \in BOOLEAN
  /\ budget = [calls |-> 0, fires |-> 0, orders |-> 0]
  /\ sev = NoSev

\* this.emit('error', error) of an EventEmitter: throws without a listener
StrategyEmitErrorThrows(hasListener) == ~hasListener

Spend(what) == budget' = [budget EXCEPT ![what] = @ + 1]

\* if (this.state === StrategyState.RUNNING) return
StartGuardNone(st) == FALSE
StartGuard(st) == st = RUNNING

\* start(), up to `await this.exchange.fetchMarket(...)`
start ==
  /\ budget.calls < MaxStrategyCalls
  /\ Spend("calls")
  /\ IF StartGuard(strategyState)
     THEN /\ sev' = [NoSev EXCEPT !.op = "start"]
          /\ UNCHANGED <<startsPending, afterStop>>
     ELSE /\ timersMade + startsPending < MaxTimers
          /\ startsPending' = startsPending + 1
          /\ afterStop' = FALSE
          /\ sev' = [NoSev EXCEPT !.op = "start", !.fetchMarket = TRUE]
  /\ UNCHANGED <<strategyState, tickTimer, liveTimers, timersMade, market, positions,
                 openOrders, refreshing, deciding, stops, errorListener>>

\* fetchMarket resolves: the rest of start()
fetchMarketResolves ==
  /\ startsPending > 0
  /\ startsPending' = startsPending - 1
  /\ market' = "m"
  /\ strategyState' = RUNNING
  /\ timersMade' = timersMade + 1
  /\ liveTimers' = liveTimers \cup {timersMade + 1}
  /\ tickTimer' = timersMade + 1
  /\ sev' = [NoSev EXCEPT !.op = "started", !.emitted = <<"started">>]
  /\ UNCHANGED <<positions, openOrders, refreshing, deciding, stops, afterStop,
                 errorListener, budget>>

\* fetchMarket rejects: start() rejects with that error
fetchMarketRejects ==
  /\ startsPending > 0
  /\ startsPending' = startsPending - 1
  /\ sev' = [NoSev EXCEPT !.op = "startFailed", !.raised = TRUE]
  /\ UNCHANGED <<strategyState, tickTimer, liveTimers, timersMade, market, positions,
                 openOrders, refreshing, deciding, stops, afterStop, errorListener, budget>>

FreeStop == CHOOSE s \in StopIds : stops[s].pc = "unused"

\* clearInterval(this.tickTimer)
ClearIntervalNot(live, timer) == live
ClearInterval(live, timer) == live \ {timer}

\* stop(), up to the first `await this.exchange.cancelOrder(...)` of
\* cancelAllOrders, or to its end when there is no order
stop ==
  /\ budget.calls < MaxStrategyCalls
  /\ Spend("calls")
  /\ IF strategyState = STOPPED
     THEN /\ sev' = [NoSev EXCEPT !.op = "stop"]
          /\ UNCHANGED <<strategyState, tickTimer, liveTimers, openOrders, stops, afterStop>>
     ELSE /\ strategyState' = STOPPED
          /\ liveTimers' = IF tickTimer # 0 THEN ClearInterval(liveTimers, tickTimer) ELSE liveTimers
          /\ tickTimer' = 0
          /\ afterStop' = TRUE
          /\ IF openOrders = <<>>
             THEN /\ openOrders' = <<>>
                  /\ stops' = [s \in StopIds |-> [stops[s] EXCEPT !.same = FALSE]]
                  /\ sev' = [NoSev EXCEPT !.op = "stop", !.emitted = <<"stopped">>]
             ELSE /\ \E s \in StopIds : stops[s].pc = "unused"
                  /\ stops' = [stops EXCEPT ![FreeStop] =
                       [pc |-> "cancel", arr |-> openOrders, i |-> 1, same |-> TRUE,
                        snap |-> openOrders, results |-> <<>>]]
                  /\ openOrders' = openOrders
                  /\ sev' = [NoSev EXCEPT !.op = "stop", !.cancel = openOrders[1],
                                          !.stop = FreeStop]
  /\ UNCHANGED <<timersMade, market, positions, startsPending, refreshing, deciding,
                 errorListener>>

\* catch { void 0 } around `await this.exchange.cancelOrder(...)`
CancelFailureEndsLoop(ok) == ~ok
CancelFailureStops(ok) == FALSE

\* a cancelOrder of cancelAllOrders settles (ok or not): the next order of
\* the array being iterated, or the end of the loop and of stop()
cancelOrderSettles(s, ok) ==
  /\ stops[s].pc = "cancel"
  /\ LET r == stops[s] IN
     IF r.i < Len(r.arr) /\ ~CancelFailureStops(ok)
     THEN /\ stops' = [stops EXCEPT ![s] = [r EXCEPT !.i = @ + 1, !.results = Append(@, ok)]]
          /\ sev' = [NoSev EXCEPT !.op = "cancelNext", !.cancel = r.arr[r.i + 1], !.stop = s]
          /\ UNCHANGED openOrders
     ELSE /\ stops' = [x \in StopIds |->
                         IF x = s THEN NoStop ELSE [stops[x] EXCEPT !.same = FALSE]]
          /\ openOrders' = <<>>
          /\ sev' = [NoSev EXCEPT !.op = "stopped", !.emitted = <<"stopped">>, !.stop = s,
                                  !.raised = CancelFailureStops(ok)]
  /\ UNCHANGED <<strategyState, tickTimer, liveTimers, timersMade, market, positions,
                 startsPending, refreshing, deciding, afterStop, errorListener, budget>>

pause ==
  /\ budget.calls < MaxStrategyCalls
  /\ Spend("calls")
  /\ IF strategyState = RUNNING
     THEN /\ strategyState' = PAUSED
          /\ sev' = [NoSev EXCEPT !.op = "pause", !.emitted = <<"paused">>]
     ELSE /\ sev' = [NoSev EXCEPT !.op = "pause"]
          /\ UNCHANGED strategyState
  /\ UNCHANGED <<tickTimer, liveTimers, timersMade, market, positions, openOrders,
                 startsPending, refreshing, deciding, stops, afterStop, errorListener>>

resume ==
  /\ budget.calls < MaxStrategyCalls
  /\ Spend("calls")
  /\ IF strategyState = PAUSED
     THEN /\ strategyState' = RUNNING
          /\ sev' = [NoSev EXCEPT !.op = "resume", !.emitted = <<"resumed">>]
     ELSE /\ sev' = [NoSev EXCEPT !.op = "resume"]
          /\ UNCHANGED strategyState
  /\ UNCHANGED <<tickTimer, liveTimers, timersMade, market, positions, openOrders,
                 startsPending, refreshing, deciding, stops, afterStop, errorListener>>

\* if (this.state !== StrategyState.RUNNING) return
TickGuardNone(st) == TRUE
TickGuard(st) == st = RUNNING

\* an interval expires: the tick callback, up to `await this.refreshState()`
TimerFires(t) ==
  /\ t \in liveTimers
  /\ budget.fires < MaxFires
  /\ Spend("fires")
  /\ IF TickGuard(strategyState)
     THEN /\ refreshing' = refreshing + 1
          /\ sev' = [NoSev EXCEPT !.op = "tick", !.refresh = TRUE]
     ELSE /\ sev' = [NoSev EXCEPT !.op = "tick"]
          /\ UNCHANGED refreshing
  /\ UNCHANGED <<strategyState, tickTimer, liveTimers, timersMade, market, positions,
                 openOrders, startsPending, deciding, stops, afterStop, errorListener>>

\* fetchPositions and fetchOpenOrders both resolve: the rest of
\* refreshState(), then the tick calls onTick()
refreshResolvesMerging(ps, os) ==
  /\ refreshing > 0
  /\ refreshing' = refreshing - 1
  /\ positions' = ps
  /\ openOrders' = os \o SelectSeq(openOrders, LAMBDA o : o = NewOrder)
  /\ stops' = [s \in StopIds |-> [stops[s] EXCEPT !.same = FALSE]]
  /\ deciding' = deciding + 1
  /\ sev' = [NoSev EXCEPT !.op = "refreshed", !.onTick = TRUE,
                          !.fetched = <<ps, os>>, !.old = <<positions, openOrders>>]
  /\ UNCHANGED <<strategyState, tickTimer, liveTimers, timersMade, market, startsPending,
                 afterStop, errorListener, budget>>
refreshResolves(ps, os) ==
  /\ refreshing > 0
  /\ refreshing' = refreshing - 1
  /\ positions' = ps
  /\ openOrders' = os
  /\ stops' = [s \in StopIds |-> [stops[s] EXCEPT !.same = FALSE]]
  /\ deciding' = deciding + 1
  /\ sev' = [NoSev EXCEPT !.op = "refreshed", !.onTick = TRUE,
                          !.fetched = <<ps, os>>, !.old = <<positions, openOrders>>]
  /\ UNCHANGED <<strategyState, tickTimer, liveTimers, timersMade, market, startsPending,
                 afterStop, errorListener, budget>>

\* the catch block of the tick callback
TickCatch == [NoSev EXCEPT !.op = "tickError", !.emitted = <<"error">>,
                           !.raised = StrategyEmitErrorThrows(errorListener)]

\* fetchPositions or fetchOpenOrders rejects: refreshState() throws
refreshRejectsPartial ==
  /\ refreshing > 0
  /\ refreshing' = refreshing - 1
  /\ sev' = [TickCatch EXCEPT !.failed = "refresh", !.old = <<positions, openOrders>>]
  /\ positions' \in PositionLists
  /\ UNCHANGED <<strategyState, tickTimer, liveTimers, timersMade, market,
                 openOrders, startsPending, deciding, stops, afterStop, errorListener, budget>>
refreshRejects ==
  /\ refreshing > 0
  /\ refreshing' = refreshing - 1
  /\ sev' = [TickCatch EXCEPT !.failed = "refresh", !.old = <<positions, openOrders>>]
  /\ UNCHANGED <<strategyState, tickTimer, liveTimers, timersMade, market, positions,
                 openOrders, startsPending, deciding, stops, afterStop, errorListener, budget>>

\* onTick() returns (ok) or throws
onTickSettles(ok) ==
  /\ deciding > 0
  /\ deciding' = deciding - 1
  /\ sev' = IF ok THEN [NoSev EXCEPT !.op = "ticked"] ELSE [TickCatch EXCEPT !.failed = "onTick"]
  /\ UNCHANGED <<strategyState, tickTimer, liveTimers, timersMade, market, positions,
                 openOrders, startsPending, refreshing, stops, afterStop, errorListener, budget>>

\* placeOrder called by a running onTick(): createOrder resolves (ok) or rejects
placeOrder(ok) ==
  /\ deciding > 0
  /\ budget.orders < MaxPlaced
  /\ Spend("orders")
  /\ IF ok
     THEN /\ openOrders' = Append(openOrders, NewOrder)
          /\ stops' = [s \in StopIds |->
                         IF stops[s].same THEN [stops[s] EXCEPT !.arr = Append(@, NewOrder)]
                         ELSE stops[s]]
          /\ sev' = [NoSev EXCEPT !.op = "placeOrder", !.emitted = <<"order">>]
     ELSE /\ sev' = [NoSev EXCEPT !.op = "placeOrder", !.emitted = <<"error">>,
                                  !.raised = StrategyEmitErrorThrows(errorListener)]
          /\ UNCHANGED <<openOrders, stops>>
  /\ UNCHANGED <<strategyState, tickTimer, liveTimers, timersMade, market, positions,
                 startsPending, refreshing, deciding, afterStop, errorListener>>

StrategyNext ==
  \/ start /\ UNCHANGED <<vars, dvars, bvars, ovars, fvars>>
  \/ fetchMarketResolves /\ UNCHANGED <<vars, dvars, bvars, ovars, fvars>>
  \/ fetchMarketRejects /\ UNCHANGED <<vars, dvars, bvars, ovars, fvars>>
  \/ stop /\ UNCHANGED <<vars, dvars, bvars, ovars, fvars>>
  \/ \E s \in StopIds, ok \in BOOLEAN : cancelOrderSettles(s, ok) /\ UNCHANGED <<vars, dvars, bvars, ovars, fvars>>
  \/ pause /\ UNCHANGED <<vars, dvars, bvars, ovars, fvars>>
  \/ resume /\ UNCHANGED <<vars, dvars, bvars, ovars, fvars>>
  \/ \E t \in 1..MaxTimers : TimerFires(t) /\ UNCHANGED <<vars, dvars, bvars, ovars, fvars>>
  \/ \E ps \in PositionLists, os \in OrderLists : refreshResolves(ps, os) /\ UNCHANGED <<vars, dvars, bvars, ovars, fvars>>
  \/ refreshRejects /\ UNCHANGED <<vars, dvars, bvars, ovars, fvars>>
  \/ \E ok \in BOOLEAN : onTickSettles(ok) /\ UNCHANGED <<vars, dvars, bvars, ovars, fvars>>
  \/ \E ok \in BOOLEAN : placeOrder(ok) /\ UNCHANGED <<vars, dvars, bvars, ovars, fvars>>

StrategyStart == StrategyInit /\ ClientIdle /\ DispatcherIdle /\ BackoffIdle /\ OrderbookIdle /\ FeedIdle

StrategySpec == StrategyStart /\ [][StrategyNext]_svars

StrategyTypeOK ==
  /\ strategyState \in StrategyState
  /\ tickTimer \in 0..MaxTimers
  /\ liveTimers \subseteq 1..MaxTimers
  /\ startsPending \in Nat /\ refreshing \in Nat /\ deciding \in Nat
  /\ \A s \in StopIds : stops[s].pc \in {"unused", "cancel"}

\* ---- claims about the strategy engine ----

EngineVars == <<strategyState, tickTimer, liveTimers, timersMade, market, positions,
                openOrders, startsPending, refreshing, deciding, stops>>

\* C16: start() on a running strategy does nothing; otherwise it fetches the
\* market and changes nothing else before the fetch settles.  When the fetch
\* succeeds the state becomes Running, a new repeating tick is scheduled and
\* 'started' is emitted; when it fails start() raises the error and leaves
\* the state (Stopped stays Stopped), the timers and the events untouched.
C16_Start ==
  [][/\ sev'.op = "start" =>
          /\ sev'.emitted = <<>> /\ ~sev'.raised
          /\ UNCHANGED <<strategyState, tickTimer, liveTimers, timersMade, market,
                         positions, openOrders, refreshing, deciding, stops>>
          /\ IF strategyState = RUNNING
             THEN ~sev'.fetchMarket /\ startsPending' = startsPending
             ELSE sev'.fetchMarket /\ startsPending' = startsPending + 1
     /\ sev'.op = "started" =>
          /\ strategyState' = RUNNING
          /\ tickTimer' \in liveTimers' /\ tickTimer' \notin liveTimers
          /\ sev'.emitted = <<"started">> /\ ~sev'.raised
     /\ sev'.op = "startFailed" =>
          /\ sev'.raised /\ sev'.emitted = <<>>
          /\ UNCHANGED <<strategyState, tickTimer, liveTimers, timersMade, market,
                         positions, openOrders, refreshing, deciding, stops>>
    ]_svars

C16_Witness ==
  /\ sev.op = "startFailed"
  /\ strategyState = STOPPED
  /\ liveTimers = {} /\ timersMade = 0

\* C17: after a single start() there is one tick timer, each of its expiries
\* while Running triggers exactly one tick (one refresh), and after stop() no
\* refresh and no decision callback is triggered.
C17_TicksUntilStop ==
  /\ [](timersMade <= 1 => Cardinality(liveTimers) <= 1)
  /\ [][(sev'.op = "tick" /\ strategyState = RUNNING)
          => sev'.refresh /\ refreshing' = refreshing + 1]_svars
  /\ [][(afterStop /\ afterStop') => ~sev'.refresh /\ ~sev'.onTick]_svars

\* the stop() call s that is inside cancelAllOrders has called cancelOrder
\* for stops[s].arr[1..i]
CancelCalls(s) == SubSeq(stops[s].arr, 1, stops[s].i)
IsPrefix(a, b) == Len(a) <= Len(b) /\ SubSeq(b, 1, Len(a)) = a

\* C18: stop() from Running or Paused sets the state to Stopped, clears the
\* timer held in tickTimer and calls cancelOrder once for each order of the
\* open-order list of that moment, in order, whether the earlier
\* cancellations failed or not; it never raises and emits 'stopped' after
\* the last cancellation.  stop() on a stopped strategy cancels nothing,
\* emits nothing and changes nothing.
C18_Stop ==
  /\ [][/\ (sev'.op = "stop" /\ strategyState # STOPPED) =>
             /\ strategyState' = STOPPED
             /\ tickTimer' = 0 /\ tickTimer \notin liveTimers'
             /\ ~sev'.raised
             /\ IF openOrders = <<>>
                THEN sev'.cancel = "none" /\ sev'.emitted = <<"stopped">>
                ELSE /\ sev'.cancel = openOrders[1] /\ sev'.emitted = <<>>
                     /\ stops'[sev'.stop].snap = openOrders
                     /\ stops'[sev'.stop].i = 1
        /\ (sev'.op = "stop" /\ strategyState = STOPPED) =>
             /\ sev'.cancel = "none" /\ sev'.emitted = <<>> /\ ~sev'.raised
             /\ UNCHANGED EngineVars
        /\ sev'.op = "cancelNext" =>
             /\ sev'.cancel = stops'[sev'.stop].arr[stops'[sev'.stop].i]
             /\ stops'[sev'.stop].i = stops[sev'.stop].i + 1
             /\ stops'[sev'.stop].snap = stops[sev'.stop].snap
             /\ sev'.emitted = <<>> /\ ~sev'.raised
        /\ sev'.op = "stopped" =>
             /\ IsPrefix(stops[sev'.stop].snap, CancelCalls(sev'.stop))
             /\ sev'.emitted = <<"stopped">> /\ ~sev'.raised
             /\ sev'.cancel = "none"
      ]_svars
  /\ [](\A s \in StopIds : stops[s].pc = "cancel" =>
          \/ IsPrefix(CancelCalls(s), stops[s].snap)
          \/ IsPrefix(stops[s].snap, CancelCalls(s)))

\* a cancellation failed and the next order's cancellation was attempted
C18_Witness ==
  \E s \in StopIds : /\ stops[s].pc = "cancel"
                     /\ stops[s].results = <<FALSE>>
                     /\ stops[s].i = 2
                     /\ sev.op = "cancelNext"

\* C19: an error of a tick's refresh or of onTick is reported as an 'error'
\* event and does not escape the tick callback, with or without a listener.
C19_TickErrorContained ==
  sev.op = "tickError" => sev.emitted = <<"error">> /\ ~sev.raised

\* C20: pause() changes the state only from Running to Paused and resume()
\* only from Paused to Running, each emitting its event only then; neither
\* changes the timers, the positions, the open orders or anything in
\* flight; a timer expiry while Paused starts no refresh and no decision.
C20_PauseResume ==
  [][/\ sev'.op = "pause" =>
          /\ IF strategyState = RUNNING
             THEN strategyState' = PAUSED /\ sev'.emitted = <<"paused">>
             ELSE strategyState' = strategyState /\ sev'.emitted = <<>>
          /\ UNCHANGED <<tickTimer, liveTimers, timersMade, market, positions, openOrders,
                         startsPending, refreshing, deciding, stops>>
     /\ sev'.op = "resume" =>
          /\ IF strategyState = PAUSED
             THEN strategyState' = RUNNING /\ sev'.emitted = <<"resumed">>
             ELSE strategyState' = strategyState /\ sev'.emitted = <<>>
          /\ UNCHANGED <<tickTimer, liveTimers, timersMade, market, positions, openOrders,
                         startsPending, refreshing, deciding, stops>>
     /\ (sev'.op = "tick" /\ strategyState = PAUSED) =>
          /\ ~sev'.refresh /\ ~sev'.onTick
          /\ UNCHANGED EngineVars
    ]_svars

C20_Witness ==
  /\ sev.op = "tick"
  /\ strategyState = PAUSED
  /\ tickTimer \in liveTimers

\* C21: placeOrder appends the order and emits 'order' exactly when
\* createOrder succeeds; when it fails, placeOrder emits 'error', leaves the
\* open-order list as it is and returns null: it does not raise, with or
\* without an 'error' listener.
C21_PlaceOrder ==
  [][sev'.op = "placeOrder" =>
       /\ sev'.emitted \in {<<"order">>, <<"error">>}
       /\ sev'.emitted = <<"order">> => openOrders' = Append(openOrders, NewOrder)
       /\ sev'.emitted = <<"error">> => openOrders' = openOrders
       /\ ~sev'.raised
    ]_svars

\* C26: at most one tick is between the start of its refresh and the end of
\* its decision callback at any time.
C26_OneTickAtATime == refreshing + deciding <= 1

\* ---- further claims about the streaming client ----

\* C27: every change of the connection state is Disconnected -> Connecting,
\* Connecting -> Connected, Connected -> Reconnecting (auto-reconnect on),
\* Reconnecting -> Connecting, Reconnecting -> Closed, or a change to Closed
\* made by disconnect().
C27_OnlyListedTransitions ==
  [][state' # state =>
       \/ state = DISCONNECTED /\ state' = CONNECTING /\ ev'.op \in {"connect", "watch"}
       \/ state = CONNECTING /\ state' = CONNECTED
       \/ state = CONNECTED /\ state' = RECONNECTING /\ autoReconnect
       \/ state = RECONNECTING /\ state' = CONNECTING /\ ev'.op = "timer"
       \/ state = RECONNECTING /\ state' = CLOSED
       \/ state' = CLOSED /\ ev'.op = "disconnect"
    ]_vars

\* C30: while the ping timer is active the state is Connected; the timer is
\* started only when the 'open' handler has authenticated and replayed the
\* subscriptions, an inbound frame leaves it alone, and after a transport
\* close or disconnect() it is not active.
C30_HeartbeatOnlyWhenConnected ==
  /\ [](pingTimer => state = CONNECTED)
  /\ [][(pingTimer' /\ ~pingTimer) => ev'.op = "resolve"]_vars
  /\ [][ev'.op = "message" => pingTimer' = pingTimer]_vars
  /\ [][ev'.op \in {"close", "disconnect"} => ~pingTimer']_vars

\* ---- the reconnect backoff ----
\* 1.5 ** k, in units of 1/Unit
Pow15(k) == (3 ^ k) * (2 ^ ((MaxAttempt - 1) - k))

MathMin(a, b) == IF a <= b THEN a ELSE b

\* `this.config.reconnectDelay ?? 3000`
ReconnectDelayOr(cfg) == IF cfg.given THEN cfg.ms ELSE DefaultReconnectDelay

\* the delay reconnect() computes, attempts being the counter it has just
\* incremented; the result is in units of 1/Unit ms
reconnectDelayUncapped(cfg, attempts) == ReconnectDelayOr(cfg) * Pow15(attempts - 1)
reconnectDelay(cfg, attempts) ==
  MathMin(MaxDelayMs * Unit, ReconnectDelayOr(cfg) * Pow15(attempts - 1))

BackoffInit ==
  \E cfg \in ReconnectDelays :
    backoff = [reconnectDelay |-> cfg, reconnectAttempts |-> 0, delay |-> 0, before |-> 0]

\* reconnect() up to `await this.sleep(delay)`, maxReconnectAttempts not reached
ReconnectSleeps ==
  /\ backoff.reconnectAttempts < MaxAttempt
  /\ backoff' = [backoff EXCEPT
                   !.reconnectAttempts = @ + 1,
                   !.delay = reconnectDelay(backoff.reconnectDelay, backoff.reconnectAttempts + 1),
                   !.before = backoff.delay]

\* the 'open' handler: `this.reconnectAttempts = 0`
ReconnectSucceeds ==
  /\ backoff.reconnectAttempts > 0
  /\ backoff' = [backoff EXCEPT !.reconnectAttempts = 0, !.delay = 0, !.before = 0]

BackoffNext ==
  \/ ReconnectSleeps /\ UNCHANGED <<vars, dvars, svars, ovars, fvars>>
  \/ ReconnectSucceeds /\ UNCHANGED <<vars, dvars, svars, ovars, fvars>>

BackoffStart == BackoffInit /\ ClientIdle /\ DispatcherIdle /\ StrategyIdle /\ OrderbookIdle /\ FeedIdle

BackoffSpec == BackoffStart /\ [][BackoffNext]_bvars

BackoffTypeOK ==
  /\ backoff.reconnectDelay \in ReconnectDelays
  /\ backoff.reconnectAttempts \in 0..MaxAttempt
  /\ backoff.delay \in 0..(MaxDelayMs * Unit)
  /\ backoff.before \in 0..(MaxDelayMs * Unit)

C29_BackoffDelay ==
  /\ [](backoff.reconnectAttempts >= 1 =>
          LET n == backoff.reconnectAttempts
              base == ReconnectDelayOr(backoff.reconnectDelay)
          IN /\ backoff.delay <= MaxDelayMs * Unit
             /\ IF base * (3 ^ (n - 1)) <= MaxDelayMs * (2 ^ (n - 1))
                THEN backoff.delay = base * (3 ^ (n - 1)) * (2 ^ (MaxAttempt - n))
                ELSE backoff.delay = MaxDelayMs * Unit
             /\ (base = 1000 /\ n = 1) => backoff.delay = 1000 * Unit
             /\ (base = 1000 /\ n = 2) => backoff.delay = 1500 * Unit
             /\ (base = 1000 /\ n = 3) => backoff.delay = 2250 * Unit
             /\ backoff.before <= backoff.delay)
  /\ [][backoff'.reconnectAttempts = backoff.reconnectAttempts + 1 => backoff'.delay >= backoff.delay]_bvars

\* the base delay 1000 ms has grown to the cap
C29_Witness ==
  /\ backoff.reconnectDelay = [given |-> TRUE, ms |-> 1000]
  /\ backoff.reconnectAttempts = MaxAttempt
  /\ backoff.before < backoff.delay
  /\ backoff.delay = MaxDelayMs * Unit

\* ---- number: IEEE 754 binary64 ----
\* Positive normal values and zero, which is all the prices below need.
\* [sign, e, m] is sign * (m[1].m[2] ... m[Precision]) * 2^e in binary, with
\* m[1] = 1.  Bit strings are most significant bit first.
Precision == 53
Zero == [sign |-> 0, e |-> 0, m |-> [i \in 1..Precision |-> 0]]

IsAllOnes(b, from) == \A j \in from..Len(b) : b[j] = 1

\* b + 1 on Len(b) bits
Increment(b) == [i \in 1..Len(b) |-> IF IsAllOnes(b, i + 1) THEN 1 - b[i] ELSE b[i]]

\* Round to nearest, ties to even.  bits starts with a 1 of weight 2^e and
\* has more than Precision bits; sticky: the value has nonzero bits beyond.
RoundNearestEven(sign, e, bits, sticky) ==
  LET m == [i \in 1..Precision |-> bits[i]]
      rest == sticky \/ \E j \in (Precision + 2)..Len(bits) : bits[j] = 1
      up == bits[Precision + 1] = 1 /\ (rest \/ m[Precision] = 1)
  IN IF ~up THEN [sign |-> sign, e |-> e, m |-> m]
     ELSE IF IsAllOnes(m, 1)
          THEN [sign |-> sign, e |-> e + 1, m |-> [i \in 1..Precision |-> IF i = 1 THEN 1 ELSE 0]]
          ELSE [sign |-> sign, e |-> e, m |-> Increment(m)]

LeadingZeros(bits) ==
  IF \A i \in 1..Len(bits) : bits[i] = 0
  THEN Len(bits)
  ELSE (CHOOSE i \in 1..Len(bits) : bits[i] = 1 /\ \A j \in 1..(i - 1) : bits[j] = 0) - 1

\* the double nearest the exact value bits, whose first bit weighs 2^e
ToNumber(sign, e, bits) ==
  LET z == LeadingZeros(bits)
      n == Len(bits) - z
      len == IF n > Precision THEN n ELSE Precision + 1
  IN IF n = 0 THEN Zero
     ELSE RoundNearestEven(sign, e - z, [i \in 1..len |-> IF i <= n THEN bits[z + i] ELSE 0], FALSE)

RECURSIVE BinaryExponent(_, _)
\* e with 2^e <= p / q < 2^(e + 1)
BinaryExponent(p, q) ==
  IF p >= 2 * q THEN BinaryExponent(p, 2 * q) + 1
  ELSE IF p < q THEN BinaryExponent(2 * p, q) - 1
  ELSE 0

\* the value of the decimal literal p / q, p > 0, q > 0: binary long division
\* to Precision + 1 bits, then rounding
Literal(p, q) ==
  LET e == BinaryExponent(p, q)
      q0 == IF e >= 0 THEN q * (2 ^ e) ELSE q
      r0 == IF e >= 0 THEN p ELSE p * (2 ^ (0 - e))
      rem[i \in 1..(Precision + 2)] == IF i = 1 THEN r0 ELSE 2 * (rem[i - 1] % q0)
  IN RoundNearestEven(1, e, [i \in 1..(Precision + 1) |-> IF rem[i] >= q0 THEN 1 ELSE 0],
                      rem[Precision + 2] # 0)

\* |a| < |b|
MagLess(a, b) ==
  \/ a.e < b.e
  \/ /\ a.e = b.e
     /\ \E i \in 1..Precision : a.m[i] < b.m[i] /\ \A j \in 1..(i - 1) : a.m[j] = b.m[j]

\* the mantissas of hi and lo (hi.e >= lo.e) on one scale, the first bit weighing 2^hi.e
AlignHi(hi, lo) == [i \in 1..(Precision + hi.e - lo.e) |-> IF i <= Precision THEN hi.m[i] ELSE 0]
AlignLo(hi, lo) ==
  [i \in 1..(Precision + hi.e - lo.e) |-> IF i > hi.e - lo.e THEN lo.m[i - (hi.e - lo.e)] ELSE 0]

\* x + y; the first bit of the result is the carry out
AddBits(x, y) ==
  LET n == Len(x)
      carry[i \in 1..(n + 1)] == IF i = n + 1 THEN 0 ELSE (x[i] + y[i] + carry[i + 1]) \div 2
  IN [i \in 1..(n + 1) |-> IF i = 1 THEN carry[1] ELSE (x[i - 1] + y[i - 1] + carry[i]) % 2]

\* x - y, x >= y
SubBits(x, y) ==
  LET n == Len(x)
      borrow[i \in 1..(n + 1)] ==
        IF i = n + 1 THEN 0 ELSE IF x[i] - y[i] - borrow[i + 1] < 0 THEN 1 ELSE 0
  IN [i \in 1..n |-> (x[i] - y[i] - borrow[i + 1] + 2) % 2]

\* a + b, a - b and a / 2 for a >= 0, b >= 0
NumberAdd(a, b) ==
  IF a.sign = 0 THEN b
  ELSE IF b.sign = 0 THEN a
  ELSE LET hi == IF a.e >= b.e THEN a ELSE b
           lo == IF a.e >= b.e THEN b ELSE a
       IN ToNumber(1, hi.e + 1, AddBits(AlignHi(hi, lo), AlignLo(hi, lo)))

NumberSub(a, b) ==
  IF a = b THEN Zero
  ELSE IF b.sign = 0 THEN a
  ELSE IF a.sign = 0 THEN [b EXCEPT !.sign = -1]
  ELSE LET hi == IF MagLess(a, b) THEN b ELSE a
           lo == IF MagLess(a, b) THEN a ELSE b
       IN ToNumber(IF MagLess(a, b) THEN -1 ELSE 1, hi.e, SubBits(AlignHi(hi, lo), AlignLo(hi, lo)))

NumberHalf(a) == IF a.sign = 0 THEN a ELSE [a EXCEPT !.e = @ - 1]

\* ---- Orderbook, OrderbookUtils ----
\* a price written with two decimals, as the number literal of the source text
Price(hundredths) == Literal(hundredths, 100)
\* PriceLevel: [price, size]
Level(hundredths) == <<Price(hundredths), 100>>

\* the bids and asks of the snapshots stored: empty, one level, and two
\* levels of which the first is not the best
BidLists == {<<>>, <<Level(48)>>, <<Level(48), Level(50)>>}
AskLists == {<<>>, <<Level(52)>>, <<Level(55), Level(52)>>}

\* Orderbook; assetId and marketId are left out, no operation reads them
Orderbooks == [bids : BidLists, asks : AskLists, timestamp : 1..MaxTimestamp]

bestBidLast(orderbook) ==
  IF Len(orderbook.bids) > 0 THEN orderbook.bids[Len(orderbook.bids)][1] ELSE Null
bestBid(orderbook) == IF Len(orderbook.bids) > 0 THEN orderbook.bids[1][1] ELSE Null

bestAsk(orderbook) == IF Len(orderbook.asks) > 0 THEN orderbook.asks[1][1] ELSE Null

midPrice(orderbook) ==
  LET bid == bestBid(orderbook)
      ask == bestAsk(orderbook)
  IN IF bid = Null \/ ask = Null THEN Null ELSE NumberHalf(NumberAdd(bid, ask))

spread(orderbook) ==
  LET bid == bestBid(orderbook)
      ask == bestAsk(orderbook)
  IN IF bid = Null \/ ask = Null THEN Null ELSE NumberSub(ask, bid)

\* ---- OrderbookManager ----
\* Map.get, Map.set on the function m
MapGetOr(m, k) == IF k \in DOMAIN m THEN m[k] ELSE Undefined
MapPut(m, k, v) == [x \in (DOMAIN m) \cup {k} |-> IF x = k THEN v ELSE m[x]]

get(m, tokenId) == MapGetOr(m, tokenId)

getBestBidAsk(m, tokenId) ==
  LET orderbook == get(m, tokenId)
  IN IF orderbook = Undefined THEN <<Null, Null>>
     ELSE <<bestBid(orderbook), bestAsk(orderbook)>>

hasDataEitherSide(m, tokenId) ==
  LET orderbook == get(m, tokenId)
  IN IF orderbook = Undefined THEN FALSE
     ELSE Len(orderbook.bids) > 0 \/ Len(orderbook.asks) > 0
hasData(m, tokenId) ==
  LET orderbook == get(m, tokenId)
  IN IF orderbook = Undefined THEN FALSE
     ELSE Len(orderbook.bids) > 0 /\ Len(orderbook.asks) > 0

hasAllDataSome(m, tokenIds) == \E i \in 1..Len(tokenIds) : hasData(m, tokenIds[i])
hasAllData(m, tokenIds) == \A i \in 1..Len(tokenIds) : hasData(m, tokenIds[i])

updateKeepsNewer(tokenId, orderbook) ==
  /\ orderbooks' = IF /\ tokenId \in DOMAIN orderbooks
                      /\ orderbooks[tokenId].timestamp > orderbook.timestamp
                   THEN orderbooks
                   ELSE MapPut(orderbooks, tokenId, orderbook)
  /\ oev' = [op |-> "update", id |-> tokenId, ob |-> orderbook, old |-> get(orderbooks, tokenId)]
update(tokenId, orderbook) ==
  /\ orderbooks' = MapPut(orderbooks, tokenId, orderbook)
  /\ oev' = [op |-> "update", id |-> tokenId, ob |-> orderbook, old |-> get(orderbooks, tokenId)]

clear ==
  /\ orderbooks' = <<>>
  /\ oev' = [NoOev EXCEPT !.op = "clear"]

OrderbookNext ==
  \/ \E id \in TokenIds, ob \in Orderbooks : update(id, ob) /\ UNCHANGED <<vars, dvars, svars, bvars, fvars>>
  \/ clear /\ UNCHANGED <<vars, dvars, svars, bvars, fvars>>

OrderbookStart == OrderbookIdle /\ ClientIdle /\ DispatcherIdle /\ StrategyIdle /\ BackoffIdle /\ FeedIdle

OrderbookSpec == OrderbookStart /\ [][OrderbookNext]_ovars

OrderbookTypeOK ==
  /\ DOMAIN orderbooks \subseteq TokenIds
  /\ \A id \in DOMAIN orderbooks : orderbooks[id] \in Orderbooks
  /\ oev.op \in {"none", "update", "clear"}
  /\ oev.ob \in Orderbooks \cup {Undefined}
  /\ oev.old \in Orderbooks \cup {Undefined}

\* ---- claims about OrderbookManager and OrderbookUtils ----

\* C22: after update(id, snapshot) get(id) is that snapshot, whatever its
\* timestamp and the stored one's, and get of every other id is what it was;
\* get is undefined for an id never updated and, after clear(), for every id.
C22_GetReturnsLastApplied ==
  /\ [](oev.op \in {"none", "clear"} => \A id \in QueryIds : get(orderbooks, id) = Undefined)
  /\ [](oev.op = "update" => get(orderbooks, oev.id) = oev.ob)
  /\ [](get(orderbooks, "nonexistent") = Undefined)
  /\ [][oev'.op = "update" =>
          \A id \in QueryIds \ {oev'.id} : get(orderbooks', id) = get(orderbooks, id)]_ovars

\* a snapshot stamped older than the stored one was applied, and is returned
C22_Witness ==
  /\ oev.op = "update"
  /\ oev.old # Undefined
  /\ oev.old.timestamp > oev.ob.timestamp
  /\ get(orderbooks, oev.id) = oev.ob
  /\ \E id \in TokenIds \ {oev.id} : get(orderbooks, id) # Undefined

\* C23: hasData(id) is true exactly when the current snapshot of id has
\* bids and asks both non-empty: false before any update, true after an
\* update with both sides, false after an update that empties a side.
C23_HasData ==
  /\ [](\A id \in QueryIds :
          hasData(orderbooks, id) <=>
            /\ id \in DOMAIN orderbooks
            /\ orderbooks[id].bids # <<>>
            /\ orderbooks[id].asks # <<>>)
  /\ [](oev.op = "none" => \A id \in QueryIds : ~hasData(orderbooks, id))
  /\ [][oev'.op = "update" =>
          (hasData(orderbooks', oev'.id) <=> (oev'.ob.bids # <<>> /\ oev'.ob.asks # <<>>))]_ovars

\* an id that had data got a snapshot with bids and no asks
C23_Witness ==
  /\ oev.op = "update"
  /\ oev.old # Undefined
  /\ oev.old.bids # <<>> /\ oev.old.asks # <<>>
  /\ oev.ob.bids # <<>> /\ oev.ob.asks = <<>>
  /\ ~hasData(orderbooks, oev.id)

MaxIds == 3                     \* length of the lists hasAllData is called with
IdLists == UNION {[1..n -> QueryIds] : n \in 0..MaxIds}

\* C24: hasAllData(ids) is true exactly when hasData holds of every id in
\* ids, the empty list included; a list extended by an id without data gives
\* false.
C24_HasAllData ==
  \A ids \in IdLists :
    /\ hasAllData(orderbooks, ids) <=> (\A id \in {ids[i] : i \in DOMAIN ids} : hasData(orderbooks, id))
    /\ ids = <<>> => hasAllData(orderbooks, ids)
    /\ \A id \in QueryIds :
         ~hasData(orderbooks, id) => ~hasAllData(orderbooks, Append(ids, id))

\* both tokens have data, the list with a third id that has none gives false
C24_Witness ==
  /\ hasAllData(orderbooks, <<"token1", "token2">>)
  /\ ~hasAllData(orderbooks, <<"token1", "token2", "nonexistent">>)

\* what bestBid, bestAsk, midPrice and spread read and compute, and
\* getBestBidAsk of token id t
ReadsFirstLevel(t) ==
  LET ob == orderbooks[t]
  IN /\ bestBid(ob) = (IF ob.bids = <<>> THEN Null ELSE ob.bids[1][1])
     /\ bestAsk(ob) = (IF ob.asks = <<>> THEN Null ELSE ob.asks[1][1])
     /\ (ob.bids = <<>> \/ ob.asks = <<>>) => (midPrice(ob) = Null /\ spread(ob) = Null)
     /\ (ob.bids # <<>> /\ ob.asks # <<>>) =>
          /\ midPrice(ob) = NumberHalf(NumberAdd(ob.bids[1][1], ob.asks[1][1]))
          /\ spread(ob) = NumberSub(ob.asks[1][1], ob.bids[1][1])
     /\ getBestBidAsk(orderbooks, t) = <<bestBid(ob), bestAsk(ob)>>
     /\ getBestBidAsk(orderbooks, "nonexistent") = <<Null, Null>>

\* the snapshot of the example: best bid 0.48, best ask 0.52
IsExample(ob) ==
  /\ ob.bids # <<>> /\ ob.bids[1][1] = Price(48)
  /\ ob.asks # <<>> /\ ob.asks[1][1] = Price(52)

\* a and b differ by less than 2^-53
Within(a, b) == a = b \/ NumberSub(a, b).e < 0 - Precision

C33_RefreshReplaces ==
  [][sev'.op = "refreshed" =>
       /\ positions' = sev'.fetched[1]
       /\ openOrders' = sev'.fetched[2]
    ]_svars

\* a refresh replaced a list holding a locally appended order
C33_Witness ==
  /\ sev.op = "refreshed"
  /\ \E i \in 1..Len(sev.old[2]) : sev.old[2][i] = NewOrder
  /\ openOrders = sev.fetched[2]
  /\ \A i \in 1..Len(openOrders) : openOrders[i] # NewOrder

\* C34: from stop() to the next call of start(), onTick is not invoked, no
\* order is placed, openOrders changes only by being emptied, and once every
\* stop() has resolved openOrders is empty.
C34_QuietAfterStop ==
  /\ [][(afterStop /\ afterStop') =>
          /\ ~sev'.onTick
          /\ sev'.op # "placeOrder"
          /\ openOrders' # openOrders => openOrders' = <<>>
       ]_svars
  /\ []((afterStop /\ \A s \in StopIds : stops[s].pc = "unused") => openOrders = <<>>)

\* C35: at most one interval created by start() is active.
C35_OneTickTimer == Cardinality(liveTimers) <= 1

\* C37: when the refresh of a tick fails, positions and openOrders are left
\* as they were, onTick is not invoked and 'error' is emitted.
C37_FailedRefresh ==
  [][sev'.failed = "refresh" =>
       /\ positions' = positions
       /\ openOrders' = openOrders
       /\ ~sev'.onTick
       /\ deciding' = deciding
       /\ sev'.emitted = <<"error">>
    ]_svars

\* a refresh failed with positions and orders cached by an earlier tick
C37_Witness ==
  /\ sev.failed = "refresh"
  /\ sev.old[1] # <<>> /\ sev.old[2] # <<>>
  /\ positions = sev.old[1]
  /\ openOrders = sev.old[2]

\* ---- claims about the sockets and the subscribe requests of the streaming client ----

\* C36: at most one socket created by connect() is opening or open.
C36_OneLiveSocket ==
  Cardinality({s \in Sockets : sock[s].st \in {"connecting", "open"}}) <= 1

\* C38: the subscribe request watchOrderbook sends once its connect() has
\* resolved is not for a key the replay of that connection has already
\* subscribed.
C38_SubscribedOnce ==
  [][\A s \in Sockets :
       (/\ sock[s].caller = "watch"
        /\ sock'[s].promise # sock[s].promise
        /\ ev'.op = "resolve"
        /\ ev'.sent = "sub") => ev'.key \notin sock[s].replayed
    ]_vars

\* ---- an adapter operation run by withRetry: Polymarket.fetchMarket ----
\* how the call of fetch() ends: a response with a status, a timeout of
\* AbortSignal.timeout (fetch rejects with a DOMException named
\* TimeoutError), or a failure of the transport (fetch rejects with a
\* TypeError)
FetchResults == {"200", "200 invalid", "404", "500", "timeout", "failed"}

\* the outcome of the function fetchMarket hands to withRetry; an exception
\* of fetch() is not caught there and is no DrManhattanError
fetchMarketOutcome(result) ==
  CASE result = "404" -> "MarketNotFound"
    [] result = "500" -> "NetworkError"
    [] result = "200 invalid" -> "MarketNotFound"
    [] result = "200" -> "ok"
    [] result \in {"timeout", "failed"} -> "Error"

\* ---- further claims about the dispatcher ----

\* C31: an operation that ends by the timeout of its request is retried
\* like one that failed with NetworkError: while retries are left, withRetry
\* sleeps and goes on.
C31_TimeoutRetried ==
  [][\A p \in Callers :
       (/\ call[p].pc = "fn"
        /\ call'[p].outcomes = Append(call[p].outcomes, fetchMarketOutcome("timeout"))
        /\ CanRetry(call[p].attempt, config.maxRetries))
       => /\ call'[p].pc = "sleeping"
          /\ call'[p].sleeps = call[p].sleeps + 1
    ]_dvars

\* C40: the sleep after an attempt that checkRateLimit rejected lasts at
\* least the retryAfter of the RateLimitError.
C40_SleepCoversHint ==
  [][\A p \in Callers :
       (/\ call'[p].rejects = call[p].rejects + 1
        /\ call'[p].pc = "sleeping")
       => call'[p].wakeAt - now >= call'[p].retryAfter
    ]_dvars

\* ---- market-data producers ----
\* A number of the messages: NaN, or a value in thousandths.  Prices and
\* sizes of the messages below have at most three decimals.
PriceScale == 1000
Num(milli) == [nan |-> FALSE, milli |-> milli]
NaN == [nan |-> TRUE, milli |-> 0]

\* Number.parseFloat on the texts the messages below carry
parseFloat(text) ==
  CASE text = "0.4" -> Num(400)
    [] text = "0.6" -> Num(600)
    [] text = "5" -> Num(5 * PriceScale)
    [] text = "0" -> Num(0)
    [] text = "-1" -> Num(-PriceScale)
    [] OTHER -> NaN

\* Number(x ?? 0) on a field that is a number or missing
NumberOrZero(x) == IF x = Undefined THEN Num(0) ELSE x

\* x > 0; a comparison with NaN is false
GreaterThanZero(x) == ~x.nan /\ x.milli > 0

\* Array.prototype.sort with (a, b) => b[0] - a[0] (descending) or
\* (a, b) => a[0] - b[0]; the sort is stable.  No NaN price reaches it.
InsertLevel(sorted, level, descending) ==
  LET ComesBefore(a, b) ==
        IF descending THEN a[1].milli > b[1].milli ELSE a[1].milli < b[1].milli
      k == Cardinality({i \in 1..Len(sorted) : ~ComesBefore(level, sorted[i])})
  IN SubSeq(sorted, 1, k) \o <<level>> \o SubSeq(sorted, k + 1, Len(sorted))

RECURSIVE sort(_, _)
sort(levels, descending) ==
  IF levels = <<>> THEN <<>>
  ELSE InsertLevel(sort(SubSeq(levels, 1, Len(levels) - 1), descending),
                   levels[Len(levels)], descending)

\* lists of raw levels with text fields (Polymarket 'book' message, REST response)
TextLists ==
  { <<[price |-> "0.4", size |-> "5"], [price |-> "0.6", size |-> "5"]>>,
    <<[price |-> "0.6", size |-> "0"], [price |-> "0.4", size |-> "5"]>>,
    <<[price |-> "0", size |-> "5"], [price |-> "abc", size |-> "-1"]>> }

\* the loops over rawBids / rawAsks that keep price > 0 && size > 0
parseTextLevels(raw) ==
  SelectSeq([i \in 1..Len(raw) |-> <<parseFloat(raw[i].price), parseFloat(raw[i].size)>>],
            LAMBDA level : GreaterThanZero(level[1]) /\ GreaterThanZero(level[2]))

\* PolymarketWebSocket.findMarketIdByAsset; "" stands for undefined
findMarketIdByAsset(assetId) ==
  IF \E m \in DOMAIN assetSubscriptions : assetSubscriptions[m] = assetId
  THEN CHOOSE m \in DOMAIN assetSubscriptions : assetSubscriptions[m] = assetId
  ELSE ""

\* 'book' messages of asset1 with every pair of lists, and one message each
\* of another event type, without asset id, and of an asset nobody watches
PolymarketMessages ==
  [event_type : {"book"}, asset_id : {"asset1"}, bids : TextLists, asks : TextLists]
  \cup [event_type : {"price_change"}, asset_id : {"asset1"},
        bids : {<<[price |-> "0.4", size |-> "5"]>>}, asks : {<<[price |-> "0.6", size |-> "5"]>>}]
  \cup [event_type : {"book"}, asset_id : {"", "asset9"},
        bids : {<<[price |-> "0.4", size |-> "5"]>>}, asks : {<<[price |-> "0.6", size |-> "5"]>>}]

\* PolymarketWebSocket.parseOrderbookMessage; the timestamp is left out
parseOrderbookMessage(message) ==
  IF message.event_type # "book" THEN Null
  ELSE IF message.asset_id = "" THEN Null
  ELSE IF findMarketIdByAsset(message.asset_id) = "" THEN Null
  ELSE [marketId |-> findMarketIdByAsset(message.asset_id),
        bids |-> sort(parseTextLevels(message.bids), TRUE),
        asks |-> sort(parseTextLevels(message.asks), FALSE)]

\* OrderbookUtils.fromRestResponse; the timestamp is left out
fromRestResponse(data, tokenId) ==
  [bids |-> sort(parseTextLevels(data.bids), TRUE),
   asks |-> sort(parseTextLevels(data.asks), FALSE),
   assetId |-> tokenId,
   marketId |-> ""]

\* a snapshot handed over: by whom, to whom, under which id
Hand(producer, to, id, marketId, bids, asks) ==
  [by |-> producer, to |-> to, id |-> id, marketId |-> marketId, bids |-> bids, asks |-> asks]

\* PolymarketWebSocket.handleMessage with a 'book' message of a market
\* whose callback is registered
bookMessage(message) ==
  LET orderbook == parseOrderbookMessage(message)
  IN /\ handed' = IF orderbook = Null THEN <<>>
                  ELSE <<Hand("parseOrderbookMessage", "callback", orderbook.marketId,
                              orderbook.marketId, orderbook.bids, orderbook.asks)>>
     /\ fev' = [op |-> "handleMessage", slug |-> "", producer |-> "polymarket"]
     /\ UNCHANGED <<limitlessState, subscribedSlugs, tokenToSlug, orderbookCallbacks,
                    orderbookManager, watches, assetSubscriptions>>

\* a caller builds a snapshot from the REST response
fromRestResponseCall(data, tokenId) ==
  LET orderbook == fromRestResponse(data, tokenId)
  IN /\ handed' = <<Hand("fromRestResponse", "caller", tokenId, orderbook.marketId,
                         orderbook.bids, orderbook.asks)>>
     /\ fev' = [op |-> "fromRestResponse", slug |-> "", producer |-> "rest"]
     /\ UNCHANGED <<limitlessState, subscribedSlugs, tokenToSlug, orderbookCallbacks,
                    orderbookManager, watches, assetSubscriptions>>

\* ---- LimitlessWebSocket ----
\* the arguments of watchOrderbookByMarket: each market with its YES and NO
\* asset ids and a callback, and a market given its YES asset id only and
\* no callback
WatchArgs ==
  { [marketSlug |-> "slug1", assetIds |-> <<"yes1", "no1">>, callback |-> TRUE],
    [marketSlug |-> "slug2", assetIds |-> <<"yes2", "no2">>, callback |-> TRUE],
    [marketSlug |-> "slug2", assetIds |-> <<"yes2">>, callback |-> FALSE] }

\* lists of raw levels of an 'orderbookUpdate' event: numbers, or a missing field
RawLists ==
  { <<[price |-> Num(400), size |-> Num(5000)], [price |-> Num(600), size |-> Num(5000)]>>,
    <<[price |-> Num(600), size |-> Num(5000)], [price |-> Undefined, size |-> Num(5000)]>>,
    <<[price |-> Num(400), size |-> Num(0)]>>,
    <<[price |-> Num(1000), size |-> Num(5000)]>> }

\* the events the server sends; slug "" stands for a message without slug
OrderbookUpdates == [slug : {"slug1", "slug2", ""}, bids : RawLists, asks : RawLists]

\* the loops over rawBids / rawAsks of parseOrderbookUpdate: price > 0 only
parseRawLevels(raw) ==
  SelectSeq([i \in 1..Len(raw) |-> <<NumberOrZero(raw[i].price), NumberOrZero(raw[i].size)>>],
            LAMBDA level : GreaterThanZero(level[1]))

\* LimitlessWebSocket.parseOrderbookUpdate; the timestamp is left out
parseOrderbookUpdate(data) ==
  IF data.slug = "" THEN Null
  ELSE [slug |-> data.slug,
        bids |-> sort(parseRawLevels(data.bids), TRUE),
        asks |-> sort(parseRawLevels(data.asks), FALSE)]

\* levels.map(([price, size]) => [Math.round((1 - price) * 1000) / 1000, size])
\* on prices of at most three decimals
invertLevels(levels) ==
  [i \in 1..Len(levels) |-> <<Num(PriceScale - levels[i][1].milli), levels[i][2]>>]

\* the closure orderbookHandler of watchOrderbookByMarket; a missing
\* assetIds[0] / assetIds[1] is "" (falsy, like undefined)
Handler(marketSlug, assetIds, callback) ==
  [marketSlug |-> marketSlug,
   yesToken |-> IF Len(assetIds) >= 1 THEN assetIds[1] ELSE "",
   noToken |-> IF Len(assetIds) >= 2 THEN assetIds[2] ELSE "",
   callback |-> callback]

\* the snapshots one run of orderbookHandler hands over, in order
orderbookHandler(h, parsed) ==
  (IF h.yesToken # ""
   THEN <<Hand("watchOrderbookByMarket", "cache", h.yesToken, parsed.slug,
               parsed.bids, parsed.asks)>>
   ELSE <<>>)
  \o (IF h.noToken # ""
      THEN <<Hand("watchOrderbookByMarket", "cache", h.noToken, parsed.slug,
                  sort(invertLevels(parsed.asks), TRUE),
                  sort(invertLevels(parsed.bids), FALSE))>>
      ELSE <<>>)
  \o (IF h.callback
      THEN <<Hand("watchOrderbookByMarket", "callback", h.marketSlug, h.marketSlug,
                  parsed.bids, parsed.asks)>>
      ELSE <<>>)

\* for (const callback of this.orderbookCallbacks) callback(update)
RECURSIVE RunCallbacks(_, _)
RunCallbacks(callbacks, parsed) ==
  IF callbacks = <<>> THEN <<>>
  ELSE orderbookHandler(Head(callbacks), parsed) \o RunCallbacks(Tail(callbacks), parsed)

\* orderbookManager.update for each snapshot handed to the cache, in order
RECURSIVE StoreAll(_, _)
StoreAll(manager, hands) ==
  IF hands = <<>> THEN manager
  ELSE LET h == Head(hands)
       IN StoreAll(IF h.to = "cache"
                   THEN MapPut(manager, h.id, [bids |-> h.bids, asks |-> h.asks,
                                               assetId |-> h.id, marketId |-> h.marketId])
                   ELSE manager,
                   Tail(hands))

\* for (const assetId of assetIds) this.tokenToSlug.set(assetId, marketSlug)
RECURSIVE SetAll(_, _, _)
SetAll(m, assetIds, marketSlug) ==
  IF assetIds = <<>> THEN m
  ELSE SetAll(MapPut(m, Head(assetIds), marketSlug), Tail(assetIds), marketSlug)

\* subscribeMarket's push unless included
PushSlug(slugs, marketSlug) ==
  IF \E i \in 1..Len(slugs) : slugs[i] = marketSlug THEN slugs ELSE Append(slugs, marketSlug)

\* watchOrderbookByMarket up to its first await that waits: connected, it
\* runs through subscribeMarket; otherwise connect() leaves it waiting
watchOrderbookByMarket(args) ==
  /\ Len(watches) < MaxWatches
  /\ tokenToSlug' = SetAll(tokenToSlug, args.assetIds, args.marketSlug)
  /\ orderbookCallbacks' =
       Append(orderbookCallbacks, Handler(args.marketSlug, args.assetIds, args.callback))
  /\ IF limitlessState = "connected"
     THEN /\ subscribedSlugs' = PushSlug(subscribedSlugs, args.marketSlug)
          /\ watches' = Append(watches, [marketSlug |-> args.marketSlug, pc |-> "done"])
          /\ UNCHANGED limitlessState
     ELSE /\ limitlessState' = "connecting"
          /\ watches' = Append(watches, [marketSlug |-> args.marketSlug, pc |-> "connecting"])
          /\ UNCHANGED subscribedSlugs
  /\ handed' = <<>>
  /\ fev' = [op |-> "watchOrderbookByMarket", slug |-> args.marketSlug, producer |-> "none"]
  /\ UNCHANGED <<orderbookManager, assetSubscriptions>>

\* the 'connect' event of the socket watch w waits for: connect() resolves
\* and the watch goes on with subscribeMarket
socketConnect(w) ==
  /\ watches[w].pc = "connecting"
  /\ limitlessState' = "connected"
  /\ subscribedSlugs' = PushSlug(subscribedSlugs, watches[w].marketSlug)
  /\ watches' = [watches EXCEPT ![w].pc = "done"]
  /\ handed' = <<>>
  /\ fev' = [op |-> "connect", slug |-> watches[w].marketSlug, producer |-> "none"]
  /\ UNCHANGED <<tokenToSlug, orderbookCallbacks, orderbookManager, assetSubscriptions>>

\* 'connect_error', or the connection timeout: connect() rejects and
\* watchOrderbookByMarket with it
connectRejects(w) ==
  /\ watches[w].pc = "connecting"
  /\ watches' = [watches EXCEPT ![w].pc = "rejected"]
  /\ handed' = <<>>
  /\ fev' = [op |-> "connect_error", slug |-> watches[w].marketSlug, producer |-> "none"]
  /\ UNCHANGED <<limitlessState, subscribedSlugs, tokenToSlug, orderbookCallbacks,
                 orderbookManager, assetSubscriptions>>

\* the 'disconnect' event
socketDisconnect ==
  /\ limitlessState = "connected"
  /\ limitlessState' = "disconnected"
  /\ handed' = <<>>
  /\ fev' = [op |-> "disconnect", slug |-> "", producer |-> "none"]
  /\ UNCHANGED <<subscribedSlugs, tokenToSlug, orderbookCallbacks, orderbookManager,
                 watches, assetSubscriptions>>

\* the 'orderbookUpdate' event; the server sends the subscribed slugs
orderbookUpdate(data) ==
  /\ limitlessState = "connected"
  /\ data.slug = "" \/ \E i \in 1..Len(subscribedSlugs) : subscribedSlugs[i] = data.slug
  /\ LET parsed == parseOrderbookUpdate(data)
         hands == IF parsed = Null THEN <<>> ELSE RunCallbacks(orderbookCallbacks, parsed)
     IN /\ handed' = hands
        /\ orderbookManager' = StoreAll(orderbookManager, hands)
  /\ fev' = [op |-> "orderbookUpdate", slug |-> data.slug, producer |-> "limitless"]
  /\ UNCHANGED <<limitlessState, subscribedSlugs, tokenToSlug, orderbookCallbacks,
                 watches, assetSubscriptions>>

FeedNext ==
  \/ \E args \in WatchArgs : watchOrderbookByMarket(args) /\ UNCHANGED <<vars, dvars, svars, bvars, ovars>>
  \/ \E w \in 1..Len(watches) : socketConnect(w) /\ UNCHANGED <<vars, dvars, svars, bvars, ovars>>
  \/ \E w \in 1..Len(watches) : connectRejects(w) /\ UNCHANGED <<vars, dvars, svars, bvars, ovars>>
  \/ socketDisconnect /\ UNCHANGED <<vars, dvars, svars, bvars, ovars>>
  \/ \E data \in OrderbookUpdates : orderbookUpdate(data) /\ UNCHANGED <<vars, dvars, svars, bvars, ovars>>
  \/ \E message \in PolymarketMessages : bookMessage(message) /\ UNCHANGED <<vars, dvars, svars, bvars, ovars>>
  \/ \E data \in [bids : TextLists, asks : TextLists] :
       fromRestResponseCall(data, "asset1") /\ UNCHANGED <<vars, dvars, svars, bvars, ovars>>

\* the producers before any message; the Polymarket client has watched no
\* market, or market1 with asset1 (watchOrderbookWithAsset)
FeedInit ==
  /\ limitlessState = "disconnected"
  /\ subscribedSlugs = <<>>
  /\ tokenToSlug = <<>>
  /\ orderbookCallbacks = <<>>
  /\ orderbookManager = <<>>
  /\ watches = <<>>
  /\ assetSubscriptions \in {<<>>, [m \in {"market1"} |-> "asset1"]}
  /\ handed = <<>>
  /\ fev = NoFev

FeedStart == FeedInit /\ ClientIdle /\ DispatcherIdle /\ StrategyIdle /\ BackoffIdle /\ OrderbookIdle

FeedSpec == FeedStart /\ [][FeedNext]_fvars

\* what a snapshot must look like
NoBadLevel(levels) ==
  \A i \in 1..Len(levels) : GreaterThanZero(levels[i][1]) /\ GreaterThanZero(levels[i][2])
SortedDescending(levels) ==
  \A i \in 1..Len(levels) - 1 : levels[i][1].milli >= levels[i + 1][1].milli
SortedAscending(levels) ==
  \A i \in 1..Len(levels) - 1 : levels[i][1].milli <= levels[i + 1][1].milli

\* C32: every snapshot a producer hands to the cache or to a callback has
\* no level with price <= 0 or size <= 0, its bids are sorted by price
\* descending and its asks ascending.
C32_SnapshotsClean ==
  \A i \in 1..Len(handed) :
    /\ NoBadLevel(handed[i].bids)
    /\ NoBadLevel(handed[i].asks)
    /\ SortedDescending(handed[i].bids)
    /\ SortedAscending(handed[i].asks)

\* C39: once two different slugs are watched, an orderbook update for slug S
\* changes the manager's entries only of the asset ids registered for S.
C39_OnlyOwnAssets ==
  [][(/\ fev'.op = "orderbookUpdate"
      /\ \E i, j \in 1..Len(orderbookCallbacks) :
           orderbookCallbacks[i].marketSlug # orderbookCallbacks[j].marketSlug)
     => \A id \in DOMAIN tokenToSlug :
          tokenToSlug[id] # fev'.slug
            => MapGetOr(orderbookManager', id) = MapGetOr(orderbookManager, id)
    ]_fvars

====
